---- MODULE Spec2Model ----
(***************************************************************************)
(* Sprint metrics of the Azure DevOps dashboard: date parsing, work-item   *)
(* categorisation, cycle time and the burndown/burnup reconstruction.      *)
(*                                                                         *)
(* Strings whose characters the code inspects (dates, titles, types, tags) *)
(* are sequences of one-character strings.  An optional value is a         *)
(* sequence of length 0 (Python's None) or 1.  A calendar day as the       *)
(* burndown loop compares it is its proleptic Gregorian ordinal.           *)
(***************************************************************************)
EXTENDS Integers, Sequences, FiniteSets, TLC

VARIABLES
    bd_pc,              \* render_burndown_tab: "idle", "start", "returned", "raised", "done"
    df,                 \* the work-item table handed to render_burndown_tab
    start_date,         \* sprint window, as day numbers
    end_date,
    total_items,        \* len(scope_items)
    total_story_points, \* scope_items['story_points'].sum()
    burndown_data,      \* the list of daily snapshots
    cat_pc,             \* categorize_work_item: "idle", "called", "returned"
    cat_args,           \* its arguments title, work_type, tags
    category,           \* its return value
    interp,             \* the Python interpreter the dashboard runs on
    pd_pc,              \* parse_azure_date_to_datetime: "idle", "called", "returned"
    date_str,           \* its argument
    parsed,             \* its return value
    pw_pc,              \* process_work_items: "idle", "called", "returned"
    raw_data,           \* its argument: the work items as fetched
    work_items,         \* the rows of the DataFrame it returns
    ct_pc,              \* long-cycle analysis: "idle", "raw", "ready", "returned"
    ct_site,            \* "overview", "cycle_tab" (dashboard) or "report" (slide deck)
    rp_raw,             \* the work items handed to the report's analyze_work_items
    ct_times,           \* cycle_time_days of the rows under analysis
    ct_rule,            \* how the long-cycle threshold was computed
    ct_long,            \* the indices of the rows reported as long-cycle
    nt_pc,              \* monitor_and_notify: "idle", "ready", "returned", "raised"
    baseline_data,      \* sprint_baseline.json: key -> stored metrics, None if absent
    nt_check,           \* what check_for_changes returned in the last call
    nt_result,          \* what monitor_and_notify returned, None if it raised
    fm_pc,              \* file monitor: "idle", "watching"
    fm_clock,           \* the last reading of time.time(), in seconds
    last_processed,     \* AzureDataMonitor.last_processed: path -> time, None if absent
    modified_log,       \* per path, the times of its "File modified" log entries
    fm_event            \* the last event handled and whether it was processed

bdVars == <<bd_pc, df, start_date, end_date, total_items, total_story_points, burndown_data>>

catVars == <<cat_pc, cat_args, category>>

pdVars == <<pd_pc, date_str, parsed>>

pwVars == <<pw_pc, raw_data, work_items>>

ctVars == <<ct_pc, ct_site, rp_raw, ct_times, ct_rule, ct_long>>

ntVars == <<nt_pc, baseline_data, nt_check, nt_result>>

fmVars == <<fm_pc, fm_clock, last_processed, modified_log, fm_event>>

vars == <<bdVars, catVars, interp, pdVars, pwVars, ctVars, ntVars, fmVars>>

None == << >>
Some(x) == <<x>>

Max(a, b) == IF a >= b THEN a ELSE b

(***************************************************************************)
(* Strings                                                                 *)
(***************************************************************************)

Min(a, b) == IF a <= b THEN a ELSE b

\* s[:n]
Prefix(s, n) == SubSeq(s, 1, Min(Len(s), n))

\* s[n:], n counted from 0
Suffix(s, n) == SubSeq(s, n + 1, Len(s))

\* c in s
HasChar(s, c) == \E i \in 1..Len(s) : s[i] = c

\* s.find(c), counted from 1; Len(s) + 1 when c is not in s
FindChar(s, c) ==
    IF HasChar(s, c) THEN CHOOSE i \in 1..Len(s) : s[i] = c /\ \A j \in 1..(i - 1) : s[j] # c
    ELSE Len(s) + 1

\* s.split(c)[0]
SplitFirst(s, c) == SubSeq(s, 1, FindChar(s, c) - 1)

\* s.split(c)[1], for a string that holds c
SplitSecond(s, c) == SplitFirst(Suffix(s, FindChar(s, c)), c)

RECURSIVE ReplaceChar(_, _, _)
\* s.replace(c, t)
ReplaceChar(s, c, t) ==
    IF s = << >> THEN << >>
    ELSE (IF Head(s) = c THEN t ELSE <<Head(s)>>) \o ReplaceChar(Tail(s), c, t)

DigitChars == {"0", "1", "2", "3", "4", "5", "6", "7", "8", "9"}

DigitValue(c) ==
    CASE c = "0" -> 0 [] c = "1" -> 1 [] c = "2" -> 2 [] c = "3" -> 3 [] c = "4" -> 4
      [] c = "5" -> 5 [] c = "6" -> 6 [] c = "7" -> 7 [] c = "8" -> 8 [] c = "9" -> 9
      [] OTHER -> 0

AllDigits(s) == \A i \in 1..Len(s) : s[i] \in DigitChars

RECURSIVE IntOf(_)
\* int(s) of a string of digits, a leading blank skipped
IntOf(s) ==
    IF s = << >> THEN 0
    ELSE IF s[Len(s)] = " " THEN 0
    ELSE DigitValue(s[Len(s)]) + 10 * IntOf(SubSeq(s, 1, Len(s) - 1))

(***************************************************************************)
(* datetime                                                                *)
(***************************************************************************)

IsLeap(y) == (y % 4 = 0) /\ ((y % 100 # 0) \/ (y % 400 = 0))

DaysInMonth(y, m) ==
    CASE m \in {1, 3, 5, 7, 8, 10, 12} -> 31
      [] m \in {4, 6, 9, 11} -> 30
      [] OTHER -> IF IsLeap(y) THEN 29 ELSE 28

\* the datetime constructor accepts the fields (MINYEAR = 1, MAXYEAR = 9999)
ValidFields(f) ==
    /\ f.year >= 1 /\ f.year <= 9999
    /\ f.month >= 1 /\ f.month <= 12
    /\ f.day >= 1 /\ f.day <= DaysInMonth(f.year, f.month)
    /\ f.hour <= 23 /\ f.minute <= 59 /\ f.second <= 59

NoFields == [year |-> 1900, month |-> 1, day |-> 1, hour |-> 0, minute |-> 0, second |-> 0,
             tzinfo |-> None]

\* dt.replace(hour=0, minute=0, second=0, microsecond=0): tzinfo is kept
Midnight(dt) == [dt EXCEPT !.hour = 0, !.minute = 0, !.second = 0]

RECURSIVE DaysBeforeMonth(_, _)
DaysBeforeMonth(y, m) == IF m <= 1 THEN 0 ELSE DaysInMonth(y, m - 1) + DaysBeforeMonth(y, m - 1)

\* date.toordinal()
ToOrdinal(dt) ==
    LET y == dt.year - 1
    IN  y * 365 + (y \div 4) - (y \div 100) + (y \div 400) + DaysBeforeMonth(dt.year, dt.month) + dt.day

(***************************************************************************)
(* datetime.strptime                                                       *)
(***************************************************************************)

\* The formats of the code, one token per directive or literal character.
FmtDate == <<"Y", "-", "m", "-", "d">>

FmtT == <<"Y", "-", "m", "-", "d", "T", "H", ":", "M", ":", "S">>

FmtSpace == <<"Y", "-", "m", "-", "d", " ", "H", ":", "M", ":", "S">>

Directives == {"Y", "m", "d", "H", "M", "S"}

DirectiveWidths(t) == IF t = "Y" THEN {4} ELSE {1, 2}

\* The regular expression _strptime compiles for each directive.
DirectiveMatches(t, x) ==
    CASE t = "Y" -> AllDigits(x)
      [] t = "m" -> IF Len(x) = 2
                    THEN (x[1] = "1" /\ x[2] \in {"0", "1", "2"})
                         \/ (x[1] = "0" /\ x[2] \in DigitChars \ {"0"})
                    ELSE x[1] \in DigitChars \ {"0"}
      [] t = "d" -> IF Len(x) = 2
                    THEN (x[1] = "3" /\ x[2] \in {"0", "1"})
                         \/ (x[1] \in {"1", "2"} /\ x[2] \in DigitChars)
                         \/ (x[1] \in {"0", " "} /\ x[2] \in DigitChars \ {"0"})
                    ELSE x[1] \in DigitChars \ {"0"}
      [] t = "H" -> IF Len(x) = 2
                    THEN (x[1] = "2" /\ x[2] \in {"0", "1", "2", "3"})
                         \/ (x[1] \in {"0", "1"} /\ x[2] \in DigitChars)
                    ELSE x[1] \in DigitChars
      [] t = "M" -> IF Len(x) = 2
                    THEN x[1] \in {"0", "1", "2", "3", "4", "5"} /\ x[2] \in DigitChars
                    ELSE x[1] \in DigitChars
      [] t = "S" -> IF Len(x) = 2
                    THEN (x[1] = "6" /\ x[2] \in {"0", "1"})
                         \/ (x[1] \in {"0", "1", "2", "3", "4", "5"} /\ x[2] \in DigitChars)
                    ELSE x[1] \in DigitChars
      [] OTHER -> FALSE

SetField(f, t, v) ==
    CASE t = "Y" -> [f EXCEPT !.year = v]
      [] t = "m" -> [f EXCEPT !.month = v]
      [] t = "d" -> [f EXCEPT !.day = v]
      [] t = "H" -> [f EXCEPT !.hour = v]
      [] t = "M" -> [f EXCEPT !.minute = v]
      [] t = "S" -> [f EXCEPT !.second = v]
      [] OTHER -> f

WhiteSpace == {" ", "\t"}

\* a literal of the format against a character (the pattern is compiled with
\* re.IGNORECASE)
LiteralMatches(t, c) == IF t = "T" THEN c \in {"T", "t"} ELSE c = t

RECURSIVE StrptimeMatches(_, _, _, _, _)
\* every way the format, from token k on, matches s from position p to its end
StrptimeMatches(s, p, fmt, k, f) ==
    IF k > Len(fmt) THEN (IF p = Len(s) + 1 THEN {f} ELSE {})
    ELSE IF fmt[k] \in Directives
    THEN UNION {StrptimeMatches(s, p + n, fmt, k + 1,
                                SetField(f, fmt[k], IntOf(SubSeq(s, p, p + n - 1)))) :
                n \in {w \in DirectiveWidths(fmt[k]) :
                         /\ p + w - 1 <= Len(s)
                         /\ DirectiveMatches(fmt[k], SubSeq(s, p, p + w - 1))}}
    ELSE IF fmt[k] = " "
    THEN UNION {StrptimeMatches(s, p + n, fmt, k + 1, f) :
                n \in {w \in 1..(Len(s) - p + 1) :
                         \A i \in p..(p + w - 1) : s[i] \in WhiteSpace}}
    ELSE IF p <= Len(s) /\ LiteralMatches(fmt[k], s[p])
    THEN StrptimeMatches(s, p + 1, fmt, k + 1, f)
    ELSE {}

\* datetime.strptime(s, fmt): the datetime, or None for ValueError
Strptime(s, fmt) ==
    LET ms == StrptimeMatches(s, 1, fmt, 1, NoFields)
    IN  IF ms = {} THEN None
        ELSE LET f == CHOOSE m \in ms : TRUE
             IN  IF ValidFields(f) THEN Some(f) ELSE None

(***************************************************************************)
(* datetime.fromisoformat                                                  *)
(***************************************************************************)

\* Interpreters before 3.11 accept only YYYY-MM-DD for the date; 3.11 and
\* later also accept the basic form YYYYMMDD.  The date may be followed by
\* one separator character and a time HH:MM[:SS] with an optional offset
\* +HH:MM or -HH:MM.  (Week dates, compact times and fractions do not occur
\* among the strings of this model.)
Interpreters == {"before311", "from311"}

IsoDateWidth(s, py) ==
    IF Len(s) >= 10 /\ s[5] = "-" /\ s[8] = "-"
          /\ AllDigits(SubSeq(s, 1, 4)) /\ AllDigits(SubSeq(s, 6, 7)) /\ AllDigits(SubSeq(s, 9, 10))
    THEN 10
    ELSE IF py = "from311" /\ Len(s) >= 8 /\ AllDigits(SubSeq(s, 1, 8))
    THEN 8
    ELSE 0

IsoDateFields(s, w) ==
    IF w = 10
    THEN [NoFields EXCEPT !.year = IntOf(SubSeq(s, 1, 4)), !.month = IntOf(SubSeq(s, 6, 7)),
                          !.day = IntOf(SubSeq(s, 9, 10))]
    ELSE [NoFields EXCEPT !.year = IntOf(SubSeq(s, 1, 4)), !.month = IntOf(SubSeq(s, 5, 6)),
                          !.day = IntOf(SubSeq(s, 7, 8))]

\* the offset +HH:MM / -HH:MM in minutes, or None when x is no offset
IsoOffset(x) ==
    IF Len(x) = 6 /\ x[1] \in {"+", "-"} /\ x[4] = ":"
          /\ AllDigits(SubSeq(x, 2, 3)) /\ AllDigits(SubSeq(x, 5, 6))
          /\ IntOf(SubSeq(x, 2, 3)) <= 23 /\ IntOf(SubSeq(x, 5, 6)) <= 59
    THEN Some((IF x[1] = "+" THEN 1 ELSE -1) * (60 * IntOf(SubSeq(x, 2, 3)) + IntOf(SubSeq(x, 5, 6))))
    ELSE None

\* the time string after the separator: the fields with the time set, or None
IsoTime(f, x) ==
    LET hm == Len(x) >= 5 /\ AllDigits(SubSeq(x, 1, 2)) /\ x[3] = ":" /\ AllDigits(SubSeq(x, 4, 5))
        hms == hm /\ Len(x) >= 8 /\ x[6] = ":" /\ AllDigits(SubSeq(x, 7, 8))
        w == IF hms THEN 8 ELSE 5
        rest == Suffix(x, w)
        g == [f EXCEPT !.hour = IntOf(SubSeq(x, 1, 2)), !.minute = IntOf(SubSeq(x, 4, 5)),
                       !.second = IF hms THEN IntOf(SubSeq(x, 7, 8)) ELSE 0]
    IN  IF ~hm THEN None
        ELSE IF rest = << >> THEN Some(g)
        ELSE IF IsoOffset(rest) # None THEN Some([g EXCEPT !.tzinfo = IsoOffset(rest)])
        ELSE None

\* datetime.fromisoformat(s): the datetime, or None for ValueError
FromIsoFormat(s, py) ==
    LET w == IsoDateWidth(s, py)
        f == IsoDateFields(s, w)
        r == IF Len(s) = w THEN Some(f) ELSE IsoTime(f, Suffix(s, w + 1))
    IN  IF w = 0 THEN None
        ELSE IF r # None /\ ValidFields(r[1]) THEN r ELSE None

(***************************************************************************)
(* parse_azure_date_to_datetime                                            *)
(***************************************************************************)

\* lines 100-113: fractional seconds removed, a trailing Z made +00:00
CleanDateStr(s) ==
    LET c == IF HasChar(s, ".") /\ (HasChar(s, "Z") \/ HasChar(s, "+"))
             THEN IF HasChar(s, "Z") THEN SplitFirst(s, ".") \o <<"Z">>
                  ELSE SplitFirst(s, ".") \o <<"+">> \o SplitSecond(s, "+")
             ELSE s
    IN  IF c # << >> /\ c[Len(c)] = "Z" THEN ReplaceChar(c, "Z", <<"+", "0", "0", ":", "0", "0">>)
        ELSE c

\* lines 95-97: the first ten characters read as %Y-%m-%d
FastPathApplies(s) == Len(s) >= 10 /\ s[5] = "-" /\ s[8] = "-"

\* line 124: the fallback formats read date_str[:19]
FallbackLength == 19

\* line 96: the fast path reads date_str[:10]
FastPathLength == 10

\* lines 119-129: the formats tried in order against date_str[:19]
FallbackFormats == <<FmtT, FmtSpace, FmtDate>>

RECURSIVE TryFormatsNoDefault(_, _, _)
TryFormatsNoDefault(s, fmts, k) ==
    IF k > Len(fmts) THEN Some(Midnight(NoFields))
    ELSE LET r == Strptime(Prefix(s, FallbackLength), fmts[k])
         IN  IF r # None THEN Some(Midnight(r[1])) ELSE TryFormatsNoDefault(s, fmts, k + 1)

RECURSIVE TryFormats(_, _, _)
TryFormats(s, fmts, k) ==
    IF k > Len(fmts) THEN None
    ELSE LET r == Strptime(Prefix(s, FallbackLength), fmts[k])
         IN  IF r # None THEN Some(Midnight(r[1])) ELSE TryFormats(s, fmts, k + 1)

ParseAzureDateToDatetime(s, py) ==
    IF s = << >> THEN None
    ELSE LET tried == IF FastPathApplies(s)
                      THEN Strptime(Prefix(s, FastPathLength), FmtDate)
                      ELSE LET iso == FromIsoFormat(CleanDateStr(s), py)
                           IN  IF iso # None THEN Some(Midnight(iso[1])) ELSE None
         IN  IF tried # None THEN tried ELSE TryFormats(s, FallbackFormats, 1)

(***************************************************************************)
(* AzureDevOpsDashboard.categorize_work_item                               *)
(***************************************************************************)

\* str.lower() of one character (ASCII letters; the other characters of the
\* model have no case)
LowerChar(c) ==
    CASE c = "A" -> "a" [] c = "B" -> "b" [] c = "C" -> "c" [] c = "D" -> "d" [] c = "E" -> "e" [] c = "F" -> "f"
      [] c = "G" -> "g" [] c = "H" -> "h" [] c = "I" -> "i" [] c = "J" -> "j" [] c = "K" -> "k" [] c = "L" -> "l"
      [] c = "M" -> "m" [] c = "N" -> "n" [] c = "O" -> "o" [] c = "P" -> "p" [] c = "Q" -> "q" [] c = "R" -> "r"
      [] c = "S" -> "s" [] c = "T" -> "t" [] c = "U" -> "u" [] c = "V" -> "v" [] c = "W" -> "w" [] c = "X" -> "x"
      [] c = "Y" -> "y" [] c = "Z" -> "z"
      [] OTHER -> c

\* s.lower()
Lower(s) == [i \in 1..Len(s) |-> LowerChar(s[i])]

\* sub in s
Contains(sub, s) ==
    \E i \in 0..(Len(s) - Len(sub)) : SubSeq(s, i + 1, i + Len(sub)) = sub

\* any(keyword in s for keyword in keywords)
AnyKeywordIn(keywords, s) == \E k \in 1..Len(keywords) : Contains(keywords[k], s)

ux_keywords ==
    <<<<"u", "x", " ">>,
      <<"u", "s", "e", "r", " ", "e", "x", "p", "e", "r", "i", "e", "n", "c", "e">>,
      <<"u", "s", "a", "b", "i", "l", "i", "t", "y">>,
      <<"u", "s", "e", "r", " ", "i", "n", "t", "e", "r", "f", "a", "c", "e", " ", "d", "e", "s", "i", "g", "n">>,
      <<"i", "n", "t", "e", "r", "a", "c", "t", "i", "o", "n", " ", "d", "e", "s", "i", "g", "n">>,
      <<"u", "s", "e", "r", " ", "r", "e", "s", "e", "a", "r", "c", "h">>,
      <<"w", "i", "r", "e", "f", "r", "a", "m", "e">>,
      <<"m", "o", "c", "k", "u", "p">>,
      <<"p", "r", "o", "t", "o", "t", "y", "p", "e">>,
      <<"u", "s", "e", "r", " ", "j", "o", "u", "r", "n", "e", "y">>,
      <<"p", "e", "r", "s", "o", "n", "a">>,
      <<"a", "c", "c", "e", "s", "s", "i", "b", "i", "l", "i", "t", "y">>,
      <<"u", "s", "e", "r", " ", "t", "e", "s", "t", "i", "n", "g">>,
      <<"d", "e", "s", "i", "g", "n", " ", "s", "y", "s", "t", "e", "m">>,
      <<"v", "i", "s", "u", "a", "l", " ", "d", "e", "s", "i", "g", "n">>,
      <<"i", "n", "f", "o", "r", "m", "a", "t", "i", "o", "n", " ", "a", "r", "c", "h", "i", "t", "e", "c", "t", "u", "r", "e">>,
      <<"u", "s", "e", "r", " ", "f", "l", "o", "w">>,
      <<"d", "e", "s", "i", "g", "n", " ", "p", "a", "t", "t", "e", "r", "n">>,
      <<"u", "s", "e", "r", " ", "s", "t", "o", "r", "y", " ", "m", "a", "p", "p", "i", "n", "g">>,
      <<"d", "e", "s", "i", "g", "n", " ", "t", "h", "i", "n", "k", "i", "n", "g">>,
      <<"u", "s", "e", "r", "-", "c", "e", "n", "t", "e", "r", "e", "d">>,
      <<"h", "u", "m", "a", "n", "-", "c", "o", "m", "p", "u", "t", "e", "r", " ", "i", "n", "t", "e", "r", "a", "c", "t", "i", "o", "n">>>>

qa_keywords ==
    <<<<"q", "a">>,
      <<"q", "u", "a", "l", "i", "t", "y", " ", "a", "s", "s", "u", "r", "a", "n", "c", "e">>,
      <<"t", "e", "s", "t", "i", "n", "g">>,
      <<"t", "e", "s", "t">>,
      <<"s", "q", "a">>,
      <<"s", "o", "f", "t", "w", "a", "r", "e", " ", "q", "u", "a", "l", "i", "t", "y">>,
      <<"q", "a", " ", "e", "n", "g", "i", "n", "e", "e", "r">>,
      <<"q", "a", " ", "l", "e", "a", "d">>,
      <<"t", "e", "s", "t", " ", "c", "a", "s", "e">>,
      <<"t", "e", "s", "t", " ", "p", "l", "a", "n">>,
      <<"a", "u", "t", "o", "m", "a", "t", "i", "o", "n", " ", "t", "e", "s", "t">>,
      <<"r", "e", "g", "r", "e", "s", "s", "i", "o", "n", " ", "t", "e", "s", "t">>,
      <<"i", "n", "t", "e", "g", "r", "a", "t", "i", "o", "n", " ", "t", "e", "s", "t">>,
      <<"u", "n", "i", "t", " ", "t", "e", "s", "t">>,
      <<"p", "e", "r", "f", "o", "r", "m", "a", "n", "c", "e", " ", "t", "e", "s", "t">>,
      <<"l", "o", "a", "d", " ", "t", "e", "s", "t">>,
      <<"s", "e", "c", "u", "r", "i", "t", "y", " ", "t", "e", "s", "t">>,
      <<"a", "c", "c", "e", "p", "t", "a", "n", "c", "e", " ", "t", "e", "s", "t">>,
      <<"v", "a", "l", "i", "d", "a", "t", "i", "o", "n">>,
      <<"v", "e", "r", "i", "f", "i", "c", "a", "t", "i", "o", "n">>>>

frontend_keywords ==
    <<<<"f", "r", "o", "n", "t", "e", "n", "d">>,
      <<"f", "r", "o", "n", "t", "-", "e", "n", "d">>,
      <<"f", "e", " ">>,
      <<"u", "i">>,
      <<"u", "s", "e", "r", " ", "i", "n", "t", "e", "r", "f", "a", "c", "e">>,
      <<"b", "u", "t", "t", "o", "n">>,
      <<"s", "c", "r", "e", "e", "n">>,
      <<"w", "i", "n", "d", "o", "w">>,
      <<"t", "a", "b">>,
      <<"g", "r", "i", "d">>,
      <<"u", "p", "l", "o", "a", "d">>,
      <<"b", "r", "a", "n", "d", "i", "n", "g">>,
      <<"t", "e", "x", "t">>,
      <<"a", "l", "e", "r", "t">>,
      <<"b", "r", "e", "a", "d", "c", "r", "u", "m", "b">>,
      <<"s", "c", "r", "o", "l", "l">>,
      <<"m", "e", "n", "u">>,
      <<"w", "e", "l", "c", "o", "m", "e">>,
      <<"s", "e", "t", "t", "i", "n", "g", "s">>,
      <<"a", "n", "g", "u", "l", "a", "r">>,
      <<"s", "a", "f", "f", "r", "o", "n">>,
      <<"c", "o", "m", "p", "o", "n", "e", "n", "t">>,
      <<"r", "e", "a", "c", "t">>,
      <<"v", "u", "e">>,
      <<"j", "a", "v", "a", "s", "c", "r", "i", "p", "t">>,
      <<"t", "y", "p", "e", "s", "c", "r", "i", "p", "t">>,
      <<"c", "s", "s">>,
      <<"h", "t", "m", "l">>,
      <<"s", "c", "s", "s">>,
      <<"s", "a", "s", "s">>,
      <<"b", "o", "o", "t", "s", "t", "r", "a", "p">>,
      <<"m", "a", "t", "e", "r", "i", "a", "l", "-", "u", "i">>,
      <<"r", "e", "s", "p", "o", "n", "s", "i", "v", "e">>,
      <<"m", "o", "b", "i", "l", "e">>,
      <<"w", "e", "b", " ", "a", "p", "p">>,
      <<"s", "p", "a">>,
      <<"c", "l", "i", "e", "n", "t", "-", "s", "i", "d", "e">>,
      <<"b", "r", "o", "w", "s", "e", "r">>,
      <<"d", "o", "m">>,
      <<"j", "q", "u", "e", "r", "y">>,
      <<"a", "j", "a", "x">>,
      <<"f", "o", "r", "m">>,
      <<"m", "o", "d", "a", "l">>,
      <<"d", "r", "o", "p", "d", "o", "w", "n">>,
      <<"n", "a", "v", "i", "g", "a", "t", "i", "o", "n">>,
      <<"h", "e", "a", "d", "e", "r">>,
      <<"f", "o", "o", "t", "e", "r">>,
      <<"s", "i", "d", "e", "b", "a", "r">>,
      <<"l", "a", "y", "o", "u", "t">>>>

backend_keywords ==
    <<<<"b", "a", "c", "k", "e", "n", "d">>,
      <<"b", "a", "c", "k", "-", "e", "n", "d">>,
      <<"a", "p", "i">>,
      <<"s", "e", "r", "v", "i", "c", "e">>,
      <<"e", "n", "d", "p", "o", "i", "n", "t">>,
      <<"l", "a", "m", "b", "d", "a">>,
      <<"a", "w", "s">>,
      <<"d", "a", "t", "a", "b", "a", "s", "e">>,
      <<"p", "o", "s", "t", "g", "r", "e", "s">>,
      <<"s", "e", "r", "v", "e", "r">>,
      <<"d", "e", "p", "r", "e", "c", "a", "t", "e">>,
      <<"u", "l", "t", "r", "a", "t", "a", "x">>,
      <<"t", "a", "x", "a", "s", "s", "i", "s", "t", "a", "n", "t">>,
      <<"w", "o", "r", "k", "f", "l", "o", "w">>,
      <<"m", "e", "t", "r", "i", "c">>,
      <<"e", "m", "a", "i", "l">>,
      <<"m", "i", "c", "r", "o", "s", "e", "r", "v", "i", "c", "e">>,
      <<"r", "e", "s", "t">>,
      <<"g", "r", "a", "p", "h", "q", "l">>,
      <<"s", "q", "l">>,
      <<"n", "o", "s", "q", "l">>,
      <<"m", "o", "n", "g", "o", "d", "b">>,
      <<"r", "e", "d", "i", "s">>,
      <<"c", "a", "c", "h", "e">>,
      <<"q", "u", "e", "u", "e">>,
      <<"j", "o", "b">>,
      <<"c", "r", "o", "n">>,
      <<"b", "a", "t", "c", "h">>,
      <<"a", "u", "t", "h", "e", "n", "t", "i", "c", "a", "t", "i", "o", "n">>,
      <<"a", "u", "t", "h", "o", "r", "i", "z", "a", "t", "i", "o", "n">>,
      <<"s", "e", "c", "u", "r", "i", "t", "y">>,
      <<"e", "n", "c", "r", "y", "p", "t", "i", "o", "n">>,
      <<"t", "o", "k", "e", "n">>,
      <<"m", "i", "d", "d", "l", "e", "w", "a", "r", "e">>,
      <<"f", "r", "a", "m", "e", "w", "o", "r", "k">>,
      <<"s", "p", "r", "i", "n", "g">>,
      <<"n", "o", "d", "e", ".", "j", "s">>,
      <<"p", "y", "t", "h", "o", "n">>,
      <<"j", "a", "v", "a">>,
      <<"d", "o", "c", "k", "e", "r">>,
      <<"k", "u", "b", "e", "r", "n", "e", "t", "e", "s">>,
      <<"d", "e", "p", "l", "o", "y", "m", "e", "n", "t">>,
      <<"i", "n", "f", "r", "a", "s", "t", "r", "u", "c", "t", "u", "r", "e">>,
      <<"c", "l", "o", "u", "d">>,
      <<"i", "n", "t", "e", "g", "r", "a", "t", "i", "o", "n">>,
      <<"w", "e", "b", "h", "o", "o", "k">>,
      <<"m", "e", "s", "s", "a", "g", "e">>,
      <<"e", "v", "e", "n", "t">>,
      <<"s", "t", "r", "e", "a", "m">>>>

TypeBug == <<"B", "u", "g">>

TagUxe == <<"u", "x", "e">>

\* work_type == 'Bug'
IsBugType(work_type) == work_type = TypeBug

\* 'uxe' in tags_lower, with tags_lower = tags.lower() if tags else ""
HasUxeTag(tags) == Contains(TagUxe, IF tags # << >> THEN Lower(tags) ELSE << >>)

TitleCategoryDefaultOther(title_lower) ==
    IF AnyKeywordIn(ux_keywords, title_lower) THEN "UX"
    ELSE IF AnyKeywordIn(qa_keywords, title_lower) THEN "QA"
    ELSE IF AnyKeywordIn(frontend_keywords, title_lower) THEN "Frontend"
    ELSE IF AnyKeywordIn(backend_keywords, title_lower) THEN "Backend"
    ELSE "Other"

TitleCategoryBackendFirst(title_lower) ==
    IF AnyKeywordIn(ux_keywords, title_lower) THEN "UX"
    ELSE IF AnyKeywordIn(backend_keywords, title_lower) THEN "Backend"
    ELSE IF AnyKeywordIn(qa_keywords, title_lower) THEN "QA"
    ELSE IF AnyKeywordIn(frontend_keywords, title_lower) THEN "Frontend"
    ELSE "Frontend"

TitleCategoryDefaultBackend(title_lower) ==
    IF AnyKeywordIn(ux_keywords, title_lower) THEN "UX"
    ELSE IF AnyKeywordIn(qa_keywords, title_lower) THEN "QA"
    ELSE IF AnyKeywordIn(frontend_keywords, title_lower) THEN "Frontend"
    ELSE "Backend"

\* lines 714-776: the title keyword lists in the order they are consulted
TitleCategory(title_lower) ==
    IF AnyKeywordIn(ux_keywords, title_lower) THEN "UX"
    ELSE IF AnyKeywordIn(qa_keywords, title_lower) THEN "QA"
    ELSE IF AnyKeywordIn(frontend_keywords, title_lower) THEN "Frontend"
    ELSE IF AnyKeywordIn(backend_keywords, title_lower) THEN "Backend"
    ELSE "Frontend"

CategorizeTagFirst(title, work_type, tags) ==
    IF HasUxeTag(tags) THEN "UX"
    ELSE IF IsBugType(work_type) THEN "Bug"
    ELSE TitleCategory(Lower(title))

CategorizeNoTag(title, work_type, tags) ==
    IF IsBugType(work_type) THEN "Bug"
    ELSE TitleCategory(Lower(title))

CategorizeWorkItem(title, work_type, tags) ==
    IF IsBugType(work_type) THEN "Bug"
    ELSE IF HasUxeTag(tags) THEN "UX"
    ELSE TitleCategory(Lower(title))

(***************************************************************************)
(* AzureDevOpsDashboard.process_work_items                                 *)
(***************************************************************************)

\* config.py
COMPLETED_STATES == {"Done", "Completed", "Closed", "Resolved"}

\* comparing or subtracting an aware and a naive datetime raises TypeError
Comparable(a, b) == (a.tzinfo = None) <=> (b.tzinfo = None)

\* utcoffset() in seconds, 0 for a naive datetime
OffsetSeconds(dt) == IF dt.tzinfo = None THEN 0 ELSE dt.tzinfo[1] * 60

\* (completion - from).total_seconds() of two comparable datetimes
SecondsBetween(completion, from) ==
    (ToOrdinal(completion) - ToOrdinal(from)) * 86400
    + (completion.hour - from.hour) * 3600
    + (completion.minute - from.minute) * 60
    + (completion.second - from.second)
    - (OffsetSeconds(completion) - OffsetSeconds(from))

NotBeforeUnchecked(completion, from) == TRUE

\* completion_dt >= activated_date_dt, completion_dt >= created_date_dt
NotBefore(completion, from) == SecondsBetween(completion, from) >= 0

\* (completion_dt - from_dt).days: timedelta normalises with floor division
DaysBetween(completion, from) == SecondsBetween(completion, from) \div 86400

\* one try block: the days, or None when the comparison is false or raises
ElapsedDays(completion, from) ==
    IF Comparable(completion, from) /\ NotBefore(completion, from)
    THEN Some(DaysBetween(completion, from))
    ELSE None

\* completion_dt = resolved_date_dt if resolved_date_dt else closed_date_dt
CompletionDtClosedFirst(resolved, closed) == IF closed # None THEN closed ELSE resolved

CompletionDt(resolved, closed) == IF resolved # None THEN resolved ELSE closed

\* line 656
PrimaryApplies(activated, completion) == activated # None /\ completion # None

FallbackOnlyWithoutActivated(cycle_time_days, activated, created, completion) ==
    activated = None /\ cycle_time_days = None /\ created # None /\ completion # None

\* line 666
FallbackApplies(cycle_time_days, activated, created, completion) ==
    cycle_time_days = None /\ created # None /\ completion # None

\* lines 652-673
CycleTimeDays(created, activated, resolved, closed) ==
    LET completion == CompletionDt(resolved, closed)
        primary == IF PrimaryApplies(activated, completion)
                   THEN ElapsedDays(completion[1], activated[1])
                   ELSE None
    IN  IF FallbackApplies(primary, activated, created, completion)
        THEN ElapsedDays(completion[1], created[1])
        ELSE primary

\* fields.get(name, default) or default
OrDefault(field, default) == IF field = None THEN default ELSE field[1]

\* one pass of the for loop of process_work_items
ProcessWorkItem(item, py) ==
    LET f == item.fields
        activated == ParseAzureDateToDatetime(f.ActivatedDate, py)
        resolved == ParseAzureDateToDatetime(f.ResolvedDate, py)
        closed == ParseAzureDateToDatetime(f.ClosedDate, py)
        created == ParseAzureDateToDatetime(f.CreatedDate, py)
    IN  [id              |-> item.id,
         title           |-> f.Title,
         type            |-> f.WorkItemType,
         state           |-> f.State,
         assignee        |-> OrDefault(f.AssignedTo, "Unassigned"),
         story_points    |-> OrDefault(f.StoryPoints, 0),
         created_date    |-> created,
         activated_date  |-> activated,
         resolved_date   |-> resolved,
         closed_date     |-> closed,
         cycle_time_days |-> CycleTimeDays(created, activated, resolved, closed),
         category        |-> CategorizeWorkItem(f.Title, f.WorkItemType, OrDefault(f.Tags, << >>)),
         tags            |-> OrDefault(f.Tags, << >>),
         is_completed    |-> f.State \in COMPLETED_STATES]

(***************************************************************************)
(* render_burndown_tab                                                     *)
(***************************************************************************)

REMAINING_STATES == {"Active", "Ready", "New"}

InScopeAny(item) == TRUE

InScope(item) == item.state \in (REMAINING_STATES \cup COMPLETED_STATES)

\* scope_items = df[df['state'].isin(REMAINING_STATES + COMPLETED_STATES)]
ScopeItems(d) == SelectSeq(d, InScope)

RECURSIVE SumPoints(_)
SumPoints(s) == IF s = << >> THEN 0 ELSE Head(s).story_points + SumPoints(Tail(s))

TotalItemsRemainingOnly(d) == Len(SelectSeq(d, LAMBDA it : it.state \in REMAINING_STATES))

TotalItems(d) == Len(ScopeItems(d))

TotalStoryPointsUnfiltered(d) == SumPoints(d)

TotalStoryPoints(d) == SumPoints(ScopeItems(d))

\* resolved_date if it is not NaT, else closed_date if it is not NaT, else None
CompletionDate(item) ==
    IF item.resolved_date # None THEN item.resolved_date
    ELSE IF item.closed_date # None THEN item.closed_date
    ELSE None

SprintProgressAtEnd(cur, s, e) == cur - s >= e - s

\* (current_date - start_date).days / (end_date - start_date).days >= 0.5 for a
\* positive divisor (Python's true division of two ints); the zero divisor
\* raises ZeroDivisionError, see LoopRaises
SprintProgressReached(cur, s, e) == 2 * (cur - s) >= (e - s)

\* the item takes the branch that divides by the sprint length
ItemDivides(item) ==
    item.state \in COMPLETED_STATES /\ CompletionDate(item) = None

ItemCompletedOnTheDay(item, cur, s, e) ==
    /\ item.state \in COMPLETED_STATES
    /\ LET c == CompletionDate(item) IN
          IF c # None /\ s <= c[1] /\ c[1] = cur THEN TRUE
          ELSE IF c = None THEN SprintProgressReached(cur, s, e)
          ELSE FALSE

ItemCompletedByAnyDate(item, cur, s, e) ==
    /\ item.state \in COMPLETED_STATES
    /\ LET c == CompletionDate(item) IN
          IF c # None /\ c[1] <= cur THEN TRUE
          ELSE SprintProgressReached(cur, s, e)

\* one pass of the inner for loop: is the item added to completed_by_date_*
ItemCompletedBy(item, cur, s, e) ==
    /\ item.state \in COMPLETED_STATES
    /\ LET c == CompletionDate(item) IN
          IF c # None /\ s <= c[1] /\ c[1] <= cur THEN TRUE
          ELSE IF c = None THEN SprintProgressReached(cur, s, e)
          ELSE FALSE

RECURSIVE CompletedItems(_, _, _, _)
CompletedItems(scope, cur, s, e) ==
    IF scope = << >> THEN 0
    ELSE (IF ItemCompletedBy(Head(scope), cur, s, e) THEN 1 ELSE 0)
         + CompletedItems(Tail(scope), cur, s, e)

RECURSIVE CompletedPoints(_, _, _, _)
CompletedPoints(scope, cur, s, e) ==
    IF scope = << >> THEN 0
    ELSE (IF ItemCompletedBy(Head(scope), cur, s, e) THEN Head(scope).story_points ELSE 0)
         + CompletedPoints(Tail(scope), cur, s, e)

\* The debug table of the first iteration re-parses the stored datetime values
\* with parse_azure_date_to_datetime, which yields None for anything that is
\* not a string, so every item in a completed state reaches the division.
DebugTableDivides(scope) ==
    \E i \in 1..Len(scope) : scope[i].state \in COMPLETED_STATES

MainLoopDivides(scope) ==
    \E i \in 1..Len(scope) : ItemDivides(scope[i])

\* ZeroDivisionError out of the while loop (it can only happen on the first day)
LoopRaises(scope, s, e) ==
    /\ s <= e
    /\ e - s = 0
    /\ (DebugTableDivides(scope) \/ MainLoopDivides(scope))

SnapshotUnclamped(scope, cur, s, e, ti, tp) ==
    LET ci == CompletedItems(scope, cur, s, e)
        cp == CompletedPoints(scope, cur, s, e)
    IN  [date               |-> cur,
         remaining_items    |-> ti - ci,
         remaining_points   |-> tp - cp,
         completed_items    |-> ci,
         completed_points   |-> cp,
         total_scope_items  |-> ti,
         total_scope_points |-> tp]

\* the dict appended to burndown_data for current_date = cur
Snapshot(scope, cur, s, e, ti, tp) ==
    LET ci == CompletedItems(scope, cur, s, e)
        cp == CompletedPoints(scope, cur, s, e)
    IN  [date               |-> cur,
         remaining_items    |-> Max(0, ti - ci),
         remaining_points   |-> Max(0, tp - cp),
         completed_items    |-> ci,
         completed_points   |-> cp,
         total_scope_items  |-> ti,
         total_scope_points |-> tp]

\* while current_date <= end_date: ... current_date += timedelta(days=1)
RECURSIVE WhileLoop(_, _, _, _, _, _)
WhileLoop(scope, cur, s, e, ti, tp) ==
    IF cur <= e
    THEN <<Snapshot(scope, cur, s, e, ti, tp)>> \o WhileLoop(scope, cur + 1, s, e, ti, tp)
    ELSE << >>

\* lines 2950-2959: burndown_df = pd.DataFrame(burndown_data) has no column at
\* all when the list is empty, and display_burndown_df['date'] raises KeyError
DisplayRaises(series) == series = << >>

\* bd_pc at the end: "returned" for the early return on an empty table,
\* "raised" for ZeroDivisionError out of the loop, "display_raised" for the
\* KeyError after a loop that appended nothing, "done" otherwise
RenderBurndownTab ==
    /\ bd_pc = "start"
    /\ IF df = << >>
       THEN /\ bd_pc' = "returned"
            /\ UNCHANGED <<total_items, total_story_points, burndown_data>>
       ELSE /\ total_items' = TotalItems(df)
            /\ total_story_points' = TotalStoryPoints(df)
            /\ IF LoopRaises(ScopeItems(df), start_date, end_date)
               THEN /\ bd_pc' = "raised"
                    /\ burndown_data' = << >>
               ELSE /\ burndown_data' = WhileLoop(ScopeItems(df), start_date, start_date,
                                                  end_date, TotalItems(df), TotalStoryPoints(df))
                    /\ bd_pc' = IF DisplayRaises(burndown_data') THEN "display_raised"
                                ELSE "done"
    /\ UNCHANGED <<df, start_date, end_date>>

(***************************************************************************)
(* Inputs of render_burndown_tab                                           *)
(***************************************************************************)

MaxItems == 2
MaxDay == 3

Days == 0..MaxDay

StoryPointValues == {0, 3}

\* line 688 keeps whatever number the StoryPoints field holds, also one below 0
NegativePoints == 0 - 2

DatePairs ==
    {<<None, None>>}
    \cup {<<Some(r), None>> : r \in Days}
    \cup {<<None, Some(c)>> : c \in Days}
    \cup {<<Some(1), Some(MaxDay)>>, <<Some(MaxDay), Some(1)>>}

Item(st, sp, dates) ==
    [state |-> st, story_points |-> sp, resolved_date |-> dates[1], closed_date |-> dates[2]]

ItemDomain ==
    {Item("Closed", sp, dp) : sp \in StoryPointValues, dp \in DatePairs}
    \cup {Item("Active", sp, <<None, None>>) : sp \in StoryPointValues}
    \cup {Item("Done", 3, <<None, None>>),
          Item("Active", NegativePoints, <<None, None>>),
          Item("New", 3, <<Some(1), None>>),
          Item("Removed", 3, <<None, Some(1)>>),
          Item("Removed", 0, <<None, None>>)}

ItemLists == UNION {[1..n -> ItemDomain] : n \in 0..MaxItems}

InitBurndown ==
    /\ bd_pc = "start"
    /\ df \in ItemLists
    /\ start_date \in 0..1
    /\ end_date \in Days
    /\ total_items = 0
    /\ total_story_points = 0
    /\ burndown_data = << >>

\* The three-item sprint of the end-to-end scenario, in every order of the
\* table's rows, over a window of ten calendar days (first to last day 9 days
\* apart) and over one whose ends are 10 days apart.
ScenarioItems(s) ==
    <<Item("Closed", 5, <<Some(s + 2), None>>),
      Item("Active", 3, <<None, None>>),
      Item("Closed", 2, <<None, None>>)>>

Permutations3 == {p \in [1..3 -> 1..3] : \A i, j \in 1..3 : i # j => p[i] # p[j]}

ScenarioLists(s) == {[i \in 1..3 |-> ScenarioItems(s)[p[i]]] : p \in Permutations3}

ScenarioSpans == {9, 10}

InitScenario ==
    /\ bd_pc = "start"
    /\ start_date \in 0..1
    /\ end_date \in {start_date + n : n \in ScenarioSpans}
    /\ df \in ScenarioLists(start_date)
    /\ total_items = 0
    /\ total_story_points = 0
    /\ burndown_data = << >>

(***************************************************************************)
(* Inputs of categorize_work_item                                          *)
(***************************************************************************)

TitleHeads ==
    {<<"F", "i", "x", " ", "l", "o", "g", "i", "n", " ", "b", "u", "g">>,
     <<"U", "X", " ">>,
     <<"A", "d", "d", " ", "u", "n", "i", "t", " ", "t", "e", "s", "t">>,
     <<"U", "p", "d", "a", "t", "e", " ", "b", "u", "t", "t", "o", "n">>,
     <<"A", "P", "I", " ", "e", "n", "d", "p", "o", "i", "n", "t">>,
     <<"D", "a", "t", "a", "b", "a", "s", "e">>,
     <<"Q", "A">>,
     <<>>,
     <<"W", "i", "r", "e", "f", "r", "a", "m", "e">>,
     <<"R", "e", "f", "a", "c", "t", "o", "r">>}

TitleTails ==
    {<<>>,
     <<" ", "f", "o", "r", " ", "A", "P", "I">>,
     <<" ", "a", "n", "d", " ", "t", "e", "s", "t">>,
     <<" ", "s", "c", "r", "e", "e", "n">>,
     <<" ", "u", "s", "a", "b", "i", "l", "i", "t", "y">>,
     <<" ", "v", "2">>}

Titles == {h \o t : h \in TitleHeads, t \in TitleTails}

WorkTypes ==
    {<<"B", "u", "g">>,
     <<"b", "u", "g">>,
     <<"T", "a", "s", "k">>,
     <<"U", "s", "e", "r", " ", "S", "t", "o", "r", "y">>,
     <<>>}

TagValues ==
    {<<>>,
     <<"u", "x", "e", ",", " ", "s", "p", "r", "i", "n", "t", "1", "5">>,
     <<"U", "X", "E">>,
     <<"s", "p", "r", "i", "n", "t", "1", "5">>,
     <<"L", "u", "x", "e", "m", "b", "o", "u", "r", "g", ";", " ", "Q", "A">>}

BurndownIdle ==
    /\ bd_pc = "idle"
    /\ df = << >>
    /\ start_date = 0
    /\ end_date = 0
    /\ total_items = 0
    /\ total_story_points = 0
    /\ burndown_data = << >>

CategorizeIdle ==
    /\ cat_pc = "idle"
    /\ cat_args = << >>
    /\ category = ""

InitCategorize ==
    /\ cat_pc = "called"
    /\ cat_args \in [title : Titles, work_type : WorkTypes, tags : TagValues]
    /\ category = ""

CategorizeCall ==
    /\ cat_pc = "called"
    /\ cat_pc' = "returned"
    /\ category' = CategorizeWorkItem(cat_args.title, cat_args.work_type, cat_args.tags)
    /\ UNCHANGED cat_args

(***************************************************************************)
(* Inputs of parse_azure_date_to_datetime and process_work_items           *)
(***************************************************************************)

DatePrefixes ==
    {<<"2", "0", "2", "5", "-", "0", "1", "-", "1", "0">>,
     <<"2", "0", "2", "4", "-", "0", "2", "-", "2", "9">>,
     <<"2", "0", "2", "3", "-", "0", "2", "-", "2", "9">>,
     <<"2", "0", "2", "5", "-", "1", "3", "-", "0", "1">>,
     <<"0", "0", "0", "0", "-", "0", "1", "-", "0", "1">>,
     <<"2", "0", "2", "5", "-", "1", "-", "5">>,
     <<"2", "0", "2", "5", "-", "0", "1", "-", "5">>,
     <<"2", "0", "2", "5", "0", "1", "1", "0">>,
     <<"2", "0", "2", "5", "/", "0", "1", "/", "1", "0">>,
     <<>>,
     <<"2", "0", "2", "5", "-", "0", "1", "-", " ", "5">>,
     <<"2", "0", "2", "5", "-", "0", "4", "-", "3", "1">>,
     <<"2", "0", "2", "5", "-", "1", "2", "-", "3", "1">>,
     <<"2", "0", "2", "5", "0", "2", "3", "0">>}

DateSuffixes ==
    {<<>>,
     <<"T", "1", "0", ":", "2", "0", ":", "3", "0">>,
     <<"T", "1", "0", ":", "2", "0", ":", "3", "0", ".", "1", "2", "3", "Z">>,
     <<" ", "1", "0", ":", "2", "0", ":", "3", "0">>,
     <<"g", "a", "r", "b", "a", "g", "e">>,
     <<"Z">>,
     <<"T", "1", ":", "2", ":", "3">>,
     <<"T", "1", "0", ":", "2", "0", ":", "3", "0", "+", "0", "5", ":", "3", "0">>,
     <<"t", "1", "0", ":", "2", "0", ":", "3", "0">>,
     <<"T", "2", "5", ":", "0", "0", ":", "0", "0">>}

DateStrings == {a \o b : a \in DatePrefixes, b \in DateSuffixes}

RawDates ==
    {<<>>,
     <<"2", "0", "2", "5", "-", "0", "1", "-", "0", "1">>,
     <<"2", "0", "2", "5", "-", "0", "1", "-", "1", "0", "T", "0", "8", ":", "3", "0", ":", "0", "0", ".", "1", "2", "3", "Z">>,
     <<"2", "0", "2", "5", "-", "0", "1", "-", "0", "5", "T", "0", "0", ":", "0", "0", ":", "0", "0", "Z">>,
     <<"2", "0", "2", "5", "0", "1", "0", "5", "T", "1", "0", ":", "2", "0", ":", "3", "0", "Z">>,
     <<"n", "o", "t", " ", "a", " ", "d", "a", "t", "e">>}

\* the fields of a fetched work item other than its four dates
RawOtherFields ==
    {[Title |-> <<"F", "i", "x", " ", "l", "o", "g", "i", "n", " ", "b", "u", "g">>, WorkItemType |-> <<"T", "a", "s", "k">>,
      Tags |-> Some(<<"u", "x", "e", ",", " ", "s", "p", "r", "i", "n", "t", "1", "5">>), State |-> "Closed", StoryPoints |-> Some(5),
      AssignedTo |-> Some("Ada")],
     [Title |-> <<"A", "P", "I", " ", "e", "n", "d", "p", "o", "i", "n", "t">>, WorkItemType |-> <<"B", "u", "g">>,
      Tags |-> Some(<< >>), State |-> "Active", StoryPoints |-> None, AssignedTo |-> None],
     [Title |-> <<"A", "d", "d", " ", "u", "n", "i", "t", " ", "t", "e", "s", "t">>, WorkItemType |-> <<"U", "s", "e", "r", " ", "S", "t", "o", "r", "y">>,
      Tags |-> None, State |-> "Removed", StoryPoints |-> Some(0), AssignedTo |-> Some("Bo")]}

RawFields(o, created, activated, resolved, closed) ==
    [Title |-> o.Title, WorkItemType |-> o.WorkItemType, Tags |-> o.Tags, State |-> o.State,
     StoryPoints |-> o.StoryPoints, AssignedTo |-> o.AssignedTo,
     CreatedDate |-> created, ActivatedDate |-> activated,
     ResolvedDate |-> resolved, ClosedDate |-> closed]

RawItems ==
    {[id |-> 1, fields |-> RawFields(o, c, a, r, x)] :
        o \in RawOtherFields, c \in RawDates, a \in RawDates, r \in RawDates, x \in RawDates}

ParseIdle ==
    /\ pd_pc = "idle"
    /\ date_str = << >>
    /\ parsed = None

ProcessIdle ==
    /\ pw_pc = "idle"
    /\ raw_data = << >>
    /\ work_items = << >>

InitParse ==
    /\ interp \in Interpreters
    /\ pd_pc = "called"
    /\ date_str \in DateStrings
    /\ parsed = None

InitProcess ==
    /\ interp \in Interpreters
    /\ pw_pc = "called"
    /\ raw_data \in {<<r>> : r \in RawItems}
    /\ work_items = << >>

ParseCall ==
    /\ pd_pc = "called"
    /\ pd_pc' = "returned"
    /\ parsed' = ParseAzureDateToDatetime(date_str, interp)
    /\ UNCHANGED <<date_str, interp>>

ProcessWorkItems ==
    /\ pw_pc = "called"
    /\ pw_pc' = "returned"
    /\ work_items' = [i \in 1..Len(raw_data) |-> ProcessWorkItem(raw_data[i], interp)]
    /\ UNCHANGED <<raw_data, interp>>

(***************************************************************************)
(* Long-cycle items: render_overview_tab, render_cycle_time_tab and the    *)
(* slide-deck report's analyze_work_items / analyze_cycle_time             *)
(***************************************************************************)

\* azure_devops_sprint_report.py lines 121-135: activated to resolved (else
\* closed) through datetime.fromisoformat, no comparison of the two dates; the
\* bare except turns every failure into None
ReportCompletionStr(resolved, closed) == IF resolved # << >> THEN resolved ELSE closed

ReportIso(s, py) == FromIsoFormat(ReplaceChar(s, "Z", <<"+", "0", "0", ":", "0", "0">>), py)

ReportCycleTimeDays(activated, resolved, closed, py) ==
    IF activated # << >> /\ (resolved # << >> \/ closed # << >>)
    THEN LET a == ReportIso(activated, py)
             c == ReportIso(ReportCompletionStr(resolved, closed), py)
         IN  IF a # None /\ c # None /\ Comparable(c[1], a[1])
             THEN Some(DaysBetween(c[1], a[1]))
             ELSE None
    ELSE None

\* the rows that have cycle-time data
ValidIndices(times) == {i \in 1..Len(times) : times[i] # None}

RECURSIVE SumTimes(_, _)
SumTimes(times, n) ==
    IF n = 0 THEN 0
    ELSE (IF times[n] # None THEN times[n][1] ELSE 0) + SumTimes(times, n - 1)

\* sum over the valid rows of (n * x - S)^2, n the number of valid rows and S
\* their sum: n^2 * (n - 1) times the sample variance
RECURSIVE ScaledSquares(_, _, _, _)
ScaledSquares(times, k, n, total) ==
    IF k = 0 THEN 0
    ELSE (IF times[k] # None THEN (n * times[k][1] - total) * (n * times[k][1] - total) ELSE 0)
         + ScaledSquares(times, k - 1, n, total)

FallbackDays == 5

\* x > threshold, the threshold computed by the rule from the valid rows:
\* mean + sample standard deviation, mean + 5, or mean * 1.5
ExceedsThreshold(rule, times, x) ==
    LET n == Cardinality(ValidIndices(times))
        total == SumTimes(times, Len(times))
    IN  CASE rule = "mean_plus_std" ->
               /\ n * x - total > 0
               /\ (n * x - total) * (n * x - total) * (n - 1)
                     > ScaledSquares(times, Len(times), n, total)
          [] rule = "mean_plus_days" -> n * x > total + FallbackDays * n
          [] rule = "mean_times_1_5" -> 2 * n * x > 3 * total
          [] OTHER -> FALSE

LongItems(rule, times) ==
    {i \in ValidIndices(times) : ExceedsThreshold(rule, times, times[i][1])}

\* azure_devops_dashboard.py lines 1169-1171 (and 1282, 1327)
OverviewRule(times) ==
    IF Cardinality(ValidIndices(times)) > 1 THEN "mean_plus_std"
    ELSE IF Cardinality(ValidIndices(times)) > 0 THEN "mean_plus_days"
    ELSE "not_computed"

\* azure_devops_dashboard.py lines 1880-1883 (and 1560-1563)
CycleTabRule(times) ==
    IF Cardinality(ValidIndices(times)) > 1 THEN "mean_plus_std" ELSE "not_computed"

\* azure_devops_sprint_report.py lines 216-228
ReportRule(times) ==
    IF Cardinality(ValidIndices(times)) > 1 THEN "mean_plus_std"
    ELSE IF Cardinality(ValidIndices(times)) > 0 THEN "mean_times_1_5"
    ELSE "not_computed"

\* analyze_work_items of the report: one row per fetched item
AnalyzeWorkItems ==
    /\ ct_pc = "raw"
    /\ ct_site = "report"
    /\ ct_pc' = "ready"
    /\ ct_times' = [i \in 1..Len(rp_raw) |->
                       ReportCycleTimeDays(rp_raw[i].ActivatedDate, rp_raw[i].ResolvedDate,
                                           rp_raw[i].ClosedDate, interp)]
    /\ UNCHANGED <<ct_site, rp_raw, ct_rule, ct_long, interp>>

AnalyzeCycleTime ==
    /\ ct_pc = "ready"
    /\ ct_site = "report"
    /\ ct_pc' = "returned"
    /\ ct_rule' = ReportRule(ct_times)
    /\ ct_long' = LongItems(ReportRule(ct_times), ct_times)
    /\ UNCHANGED <<ct_site, rp_raw, ct_times, interp>>

RenderOverviewTab ==
    /\ ct_pc = "ready"
    /\ ct_site = "overview"
    /\ ct_pc' = "returned"
    /\ ct_rule' = OverviewRule(ct_times)
    /\ ct_long' = LongItems(OverviewRule(ct_times), ct_times)
    /\ UNCHANGED <<ct_site, rp_raw, ct_times, interp>>

RenderCycleTimeTab ==
    /\ ct_pc = "ready"
    /\ ct_site = "cycle_tab"
    /\ ct_pc' = "returned"
    /\ ct_rule' = CycleTabRule(ct_times)
    /\ ct_long' = LongItems(CycleTabRule(ct_times), ct_times)
    /\ UNCHANGED <<ct_site, rp_raw, ct_times, interp>>

MaxTimes == 3

\* cycle_time_days of the dashboard's rows: None or a number >= 0
DashboardTimes == {None, Some(0), Some(2), Some(9)}

ReportDates ==
    {<< >>,
     <<"2", "0", "2", "5", "-", "0", "1", "-", "1", "0", "T", "0", "8", ":", "3", "0", ":", "0", "0", "Z">>,
     <<"2", "0", "2", "5", "-", "0", "1", "-", "0", "5", "T", "1", "0", ":", "0", "0", ":", "0", "0", "Z">>,
     <<"2", "0", "2", "5", "-", "0", "1", "-", "0", "1", "T", "0", "0", ":", "0", "0", ":", "0", "0">>,
     <<"2", "0", "2", "5", "-", "0", "1", "-", "2", "0">>,
     <<"2", "0", "2", "5", "0", "1", "0", "5", "T", "1", "0", ":", "0", "0", ":", "0", "0", "Z">>,
     <<"n", "o", "t", " ", "a", " ", "d", "a", "t", "e">>}

ReportRow(a, r, c) == [ActivatedDate |-> a, ResolvedDate |-> r, ClosedDate |-> c]

ReportRows ==
    {ReportRow(a, r, << >>) : a \in ReportDates, r \in ReportDates}
    \cup {ReportRow(<<"2", "0", "2", "5", "-", "0", "1", "-", "0", "5", "T", "1", "0", ":", "0", "0", ":", "0", "0", "Z">>, r, <<"2", "0", "2", "5", "-", "0", "1", "-", "1", "0", "T", "0", "8", ":", "3", "0", ":", "0", "0", "Z">>) :
             r \in {<< >>, <<"2", "0", "2", "5", "-", "0", "1", "-", "0", "5", "T", "1", "0", ":", "0", "0", ":", "0", "0", "Z">>}}

\* the rows the analysis lists are built from: the cycle times 0, 2 and -5 days,
\* no dates at all, and an activation that does not parse
ReportAnalysisRows ==
    {ReportRow(<<"2", "0", "2", "5", "-", "0", "1", "-", "0", "5", "T", "1", "0", ":", "0", "0", ":", "0", "0", "Z">>, <<"2", "0", "2", "5", "-", "0", "1", "-", "0", "5", "T", "1", "0", ":", "0", "0", ":", "0", "0", "Z">>, << >>),
     ReportRow(<<"2", "0", "2", "5", "-", "0", "1", "-", "0", "1", "T", "0", "0", ":", "0", "0", ":", "0", "0">>, <<"2", "0", "2", "5", "-", "0", "1", "-", "2", "0">>, << >>),
     ReportRow(<<"2", "0", "2", "5", "-", "0", "1", "-", "1", "0", "T", "0", "8", ":", "3", "0", ":", "0", "0", "Z">>, <<"2", "0", "2", "5", "-", "0", "1", "-", "0", "5", "T", "1", "0", ":", "0", "0", ":", "0", "0", "Z">>, << >>),
     ReportRow(<< >>, << >>, << >>)}

CycleAnalysisIdle ==
    /\ ct_pc = "idle"
    /\ ct_site = ""
    /\ rp_raw = << >>
    /\ ct_times = << >>
    /\ ct_rule = ""
    /\ ct_long = {}

InitDashboardAnalysis ==
    /\ ct_pc = "ready"
    /\ ct_site \in {"overview", "cycle_tab"}
    /\ rp_raw = << >>
    /\ ct_times \in UNION {[1..n -> DashboardTimes] : n \in 0..MaxTimes}
    /\ ct_rule = ""
    /\ ct_long = {}

InitReport ==
    /\ interp \in Interpreters
    /\ ct_pc = "raw"
    /\ ct_site = "report"
    /\ rp_raw \in {<<r>> : r \in ReportRows}
                 \cup UNION {[1..n -> ReportAnalysisRows] : n \in 0..MaxTimes}
    /\ ct_times = << >>
    /\ ct_rule = ""
    /\ ct_long = {}

(***************************************************************************)
(* email_notifier.py: SprintChangeNotifier                                 *)
(***************************************************************************)

\* Truthiness of an optional string argument: neither None nor "".
Truthy(x) == x # None /\ x[1] # << >>

\* generate_sprint_key: f"{sprint}_{team}", followed by f"_{pod}" if pod.
GenerateSprintKey(sprint, team, pod) ==
    sprint \o <<"_">> \o team \o (IF Truthy(pod) THEN <<"_">> \o pod[1] ELSE << >>)

\* int(x) of a float: truncation toward zero.  Story points of the notifier's
\* rows are counted in half points, so x = halves / 2.
PyInt(halves) == IF halves >= 0 THEN halves \div 2 ELSE 0 - ((0 - halves) \div 2)

\* current_data['story_points'].sum(), in half points.
RECURSIVE SumHalfPoints(_)
SumHalfPoints(rows) ==
    IF rows = << >> THEN 0 ELSE rows[1].story_points + SumHalfPoints(Tail(rows))

\* current_data[current_data['is_completed'] == True]
CompletedRows(rows) == SelectSeq(rows, LAMBDA r : r.is_completed)

\* current_metrics of check_for_changes ('last_updated', a time stamp that no
\* comparison reads, is left out).
CurrentMetrics(current_data, sprint, team, pod) ==
    [total_work_items |-> Len(current_data),
     total_story_points |-> PyInt(SumHalfPoints(current_data)),
     completed_work_items |-> Len(CompletedRows(current_data)),
     completed_story_points |-> PyInt(SumHalfPoints(CompletedRows(current_data))),
     sprint |-> sprint, team |-> team, pod |-> pod]

ChangeEntry(previous, current) ==
    [previous |-> previous, current |-> current, change |-> current - previous]

\* changes_detected['work_items']: present when the baseline has a
\* total_work_items and it differs from the current one.  baseline_metrics is
\* None for baseline_data.get(sprint_key, {}) = {}.
WorkItemsChangeAlways(baseline_metrics, current_metrics) ==
    IF baseline_metrics = None
    THEN Some(ChangeEntry(0, current_metrics.total_work_items))
    ELSE IF baseline_metrics[1].total_work_items # current_metrics.total_work_items
         THEN Some(ChangeEntry(baseline_metrics[1].total_work_items,
                               current_metrics.total_work_items))
         ELSE None

WorkItemsChange(baseline_metrics, current_metrics) ==
    IF baseline_metrics # None
       /\ baseline_metrics[1].total_work_items # current_metrics.total_work_items
    THEN Some(ChangeEntry(baseline_metrics[1].total_work_items,
                          current_metrics.total_work_items))
    ELSE None

\* changes_detected['story_points']
StoryPointsChange(baseline_metrics, current_metrics) ==
    IF baseline_metrics # None
       /\ baseline_metrics[1].total_story_points # current_metrics.total_story_points
    THEN Some(ChangeEntry(baseline_metrics[1].total_story_points,
                          current_metrics.total_story_points))
    ELSE None

NewBaselineOnlyIfMissing(baseline, sprint_key, current_metrics) ==
    IF baseline[sprint_key] = None
    THEN [baseline EXCEPT ![sprint_key] = Some(current_metrics)]
    ELSE baseline

NewBaselineSingleEntry(baseline, sprint_key, current_metrics) ==
    [k \in DOMAIN baseline |-> IF k = sprint_key THEN Some(current_metrics) ELSE None]

\* baseline_data[sprint_key] = current_metrics; save_baseline_data(baseline_data)
NewBaseline(baseline, sprint_key, current_metrics) ==
    [baseline EXCEPT ![sprint_key] = Some(current_metrics)]

\* check_for_changes: the returned record, with the key and the baseline file
\* as the call leaves it.
CheckForChanges(baseline, current_data, sprint, team, pod) ==
    LET sprint_key == GenerateSprintKey(sprint, team, pod)
        current_metrics == CurrentMetrics(current_data, sprint, team, pod)
        baseline_metrics == baseline[sprint_key]
        work_items_change == WorkItemsChange(baseline_metrics, current_metrics)
        story_points_change == StoryPointsChange(baseline_metrics, current_metrics)
    IN  [changes_detected |-> work_items_change # None \/ story_points_change # None,
         changes |-> [work_items |-> work_items_change,
                      story_points |-> story_points_change],
         current_metrics |-> current_metrics,
         baseline_metrics |-> baseline_metrics,
         sprint_key |-> sprint_key,
         saved |-> NewBaseline(baseline, sprint_key, current_metrics)]

\* create_email_content: the two completion rates of the summary table divide
\* by total_work_items and by total_story_points.
CreateEmailContentRaises(current_metrics) ==
    current_metrics.total_work_items = 0 \/ current_metrics.total_story_points = 0

\* send_email: every failure of the SMTP session is caught.
SendEmail(smtp_ok) ==
    IF smtp_ok THEN [email_sent |-> TRUE, email_status |-> "Email sent successfully"]
    ELSE [email_sent |-> FALSE, email_status |-> "Failed to send email"]

\* monitor_and_notify after check_for_changes has returned: the result record,
\* or None when create_email_content raises.
MonitorResult(change_result, sender_email, sender_password, smtp_ok) ==
    LET result == [changes_detected |-> change_result.changes_detected,
                   changes |-> change_result.changes,
                   current_metrics |-> change_result.current_metrics,
                   email_sent |-> FALSE,
                   email_status |-> "No changes detected"]
    IN  IF change_result.changes_detected /\ Truthy(sender_email) /\ Truthy(sender_password)
        THEN IF CreateEmailContentRaises(change_result.current_metrics)
             THEN None
             ELSE Some([result EXCEPT !.email_sent = SendEmail(smtp_ok).email_sent,
                                      !.email_status = SendEmail(smtp_ok).email_status])
        ELSE IF change_result.changes_detected
             THEN Some([result EXCEPT !.email_status =
                            "Changes detected but email credentials not provided"])
             ELSE Some(result)

NotifierRow(half_points, is_completed) ==
    [story_points |-> half_points, is_completed |-> is_completed]

\* Data frames handed to the notifier: no rows; one item without story
\* points; one open item of 3 points; one completed item of 3.5 points.
NotifierFrames ==
    {<< >>,
     <<NotifierRow(0, FALSE)>>,
     <<NotifierRow(6, FALSE)>>,
     <<NotifierRow(7, TRUE)>>}

SprintNames == {<<"S", "1">>}

TeamNames == {<<"T">>, <<"T", "_", "P">>}

PodValues == {None, Some(<<"P">>)}

SenderValues == {None, Some(<<"x">>)}

NotifierKeys ==
    {GenerateSprintKey(s, t, p) : s \in SprintNames, t \in TeamNames, p \in PodValues}

MonitorAndNotify ==
    /\ nt_pc # "idle"
    /\ \E current_data \in NotifierFrames, sprint \in SprintNames, team \in TeamNames,
          pod \in PodValues, sender_email \in SenderValues,
          sender_password \in SenderValues, smtp_ok \in BOOLEAN :
          LET change_result == CheckForChanges(baseline_data, current_data, sprint, team, pod)
              result == MonitorResult(change_result, sender_email, sender_password, smtp_ok)
          IN  /\ baseline_data' = change_result.saved
              /\ nt_check' = Some(change_result)
              /\ nt_result' = result
              /\ nt_pc' = IF result = None THEN "raised" ELSE "returned"

NotifierIdle ==
    /\ nt_pc = "idle"
    /\ baseline_data = [k \in NotifierKeys |-> None]
    /\ nt_check = None
    /\ nt_result = None

\* No sprint_baseline.json yet.
InitNotifier ==
    /\ nt_pc = "ready"
    /\ baseline_data = [k \in NotifierKeys |-> None]
    /\ nt_check = None
    /\ nt_result = None

(***************************************************************************)
(* azure_data_monitor.py: AzureDataMonitor                                 *)
(***************************************************************************)

monitored_extensions ==
    {<<".", "j", "s", "o", "n">>,
     <<".", "c", "s", "v">>,
     <<".", "x", "l", "s", "x">>,
     <<".", "t", "x", "t">>}

\* Index of the last "." of a file name, 0 if there is none.
LastDot(name) ==
    IF HasChar(name, ".")
    THEN CHOOSE i \in 1..Len(name) :
             name[i] = "." /\ \A j \in (i + 1)..Len(name) : name[j] # "."
    ELSE 0

\* Path(src_path).suffix for a path without directories: the last "." of the
\* name and what follows it, unless that "." starts or ends the name.
PathSuffix(name) ==
    IF LastDot(name) > 1 /\ LastDot(name) < Len(name)
    THEN SubSeq(name, LastDot(name), Len(name))
    ELSE << >>

\* The two filters every handler starts with.
Monitored(src_path, is_directory) ==
    ~is_directory /\ Lower(PathSuffix(src_path)) \in monitored_extensions

\* The cooldown of on_modified, in seconds.
Cooldown == 2

InCooldown(processed, file_path, current_time) ==
    /\ processed[file_path] # None
    /\ current_time - processed[file_path][1] < Cooldown

NextLastProcessedOnEveryEvent(processed, file_path, current_time, handled) ==
    [processed EXCEPT ![file_path] = Some(current_time)]

\* self.last_processed[file_path] = current_time, reached only by an event
\* that passed the filters and the cooldown test.
NextLastProcessed(processed, file_path, current_time, handled) ==
    IF handled THEN [processed EXCEPT ![file_path] = Some(current_time)] ELSE processed

FileEvent(event_type, src_path, is_directory, processed) ==
    [event_type |-> event_type, src_path |-> src_path, is_directory |-> is_directory,
     processed |-> processed]

\* The clock readings of a run are 0..MaxTime seconds.
MaxTime == 4

\* Watched names: two with monitored suffixes, one of them in upper case, and
\* one that is not monitored.
FilePaths ==
    {<<"a", ".", "j", "s", "o", "n">>,
     <<"b", ".", "C", "S", "V">>,
     <<"c", ".", "l", "o", "g">>}

\* on_modified.  current_time is the reading of time.time(), in seconds.
OnModified ==
    /\ fm_pc = "watching"
    /\ \E src_path \in FilePaths, is_directory \in BOOLEAN, current_time \in fm_clock..MaxTime :
          LET handled == /\ Monitored(src_path, is_directory)
                         /\ ~InCooldown(last_processed, src_path, current_time)
          IN  /\ fm_clock' = current_time
              /\ last_processed' =
                     NextLastProcessed(last_processed, src_path, current_time, handled)
              /\ modified_log' =
                     IF handled
                     THEN [modified_log EXCEPT ![src_path] = @ \cup {current_time}]
                     ELSE modified_log
              /\ fm_event' = Some(FileEvent("modified", src_path, is_directory, handled))
    /\ UNCHANGED fm_pc

\* on_created and on_deleted: the two filters, then the log entry and
\* process_file_change.
OnOther(event_type) ==
    /\ fm_pc = "watching"
    /\ \E src_path \in FilePaths, is_directory \in BOOLEAN, current_time \in fm_clock..MaxTime :
          /\ fm_clock' = current_time
          /\ fm_event' = Some(FileEvent(event_type, src_path, is_directory,
                                        Monitored(src_path, is_directory)))
    /\ UNCHANGED <<fm_pc, last_processed, modified_log>>

OnCreated == OnOther("created")

OnDeleted == OnOther("deleted")

MonitorIdle ==
    /\ fm_pc = "idle"
    /\ fm_clock = 0
    /\ last_processed = [p \in FilePaths |-> None]
    /\ modified_log = [p \in FilePaths |-> {}]
    /\ fm_event = None

\* AzureDataMonitor.__init__: self.last_processed = {}
InitMonitor ==
    /\ fm_pc = "watching"
    /\ fm_clock = 0
    /\ last_processed = [p \in FilePaths |-> None]
    /\ modified_log = [p \in FilePaths |-> {}]
    /\ fm_event = None

Init ==
    \/ (InitBurndown \/ InitScenario) /\ CategorizeIdle /\ ParseIdle /\ ProcessIdle /\ NotifierIdle /\ MonitorIdle
           /\ CycleAnalysisIdle /\ interp = "from311"
    \/ InitCategorize /\ BurndownIdle /\ ParseIdle /\ ProcessIdle /\ NotifierIdle /\ MonitorIdle
           /\ CycleAnalysisIdle /\ interp = "from311"
    \/ InitParse /\ BurndownIdle /\ CategorizeIdle /\ ProcessIdle /\ CycleAnalysisIdle /\ NotifierIdle /\ MonitorIdle
    \/ InitProcess /\ BurndownIdle /\ CategorizeIdle /\ ParseIdle /\ CycleAnalysisIdle /\ NotifierIdle /\ MonitorIdle
    \/ InitDashboardAnalysis /\ BurndownIdle /\ CategorizeIdle /\ ParseIdle /\ ProcessIdle /\ NotifierIdle /\ MonitorIdle
           /\ interp = "from311"
    \/ InitReport /\ BurndownIdle /\ CategorizeIdle /\ ParseIdle /\ ProcessIdle /\ NotifierIdle /\ MonitorIdle
    \/ InitNotifier /\ MonitorIdle /\ BurndownIdle /\ CategorizeIdle /\ ParseIdle /\ ProcessIdle
           /\ CycleAnalysisIdle /\ interp = "from311"
    \/ InitMonitor /\ NotifierIdle /\ BurndownIdle /\ CategorizeIdle /\ ParseIdle /\ ProcessIdle
           /\ CycleAnalysisIdle /\ interp = "from311"

Next ==
    \/ RenderBurndownTab /\ UNCHANGED <<catVars, interp, pdVars, pwVars, ctVars, ntVars, fmVars>>
    \/ CategorizeCall /\ UNCHANGED <<bdVars, interp, pdVars, pwVars, ctVars, ntVars, fmVars>>
    \/ ParseCall /\ UNCHANGED <<bdVars, catVars, pwVars, ctVars, ntVars, fmVars>>
    \/ ProcessWorkItems /\ UNCHANGED <<bdVars, catVars, pdVars, ctVars, ntVars, fmVars>>
    \/ AnalyzeWorkItems /\ UNCHANGED <<bdVars, catVars, pdVars, pwVars, ntVars, fmVars>>
    \/ AnalyzeCycleTime /\ UNCHANGED <<bdVars, catVars, pdVars, pwVars, ntVars, fmVars>>
    \/ RenderOverviewTab /\ UNCHANGED <<bdVars, catVars, pdVars, pwVars, ntVars, fmVars>>
    \/ RenderCycleTimeTab /\ UNCHANGED <<bdVars, catVars, pdVars, pwVars, ntVars, fmVars>>
    \/ MonitorAndNotify /\ UNCHANGED <<bdVars, catVars, interp, pdVars, pwVars, ctVars, fmVars>>
    \/ OnModified /\ UNCHANGED <<bdVars, catVars, interp, pdVars, pwVars, ctVars, ntVars>>
    \/ OnCreated /\ UNCHANGED <<bdVars, catVars, interp, pdVars, pwVars, ctVars, ntVars>>
    \/ OnDeleted /\ UNCHANGED <<bdVars, catVars, interp, pdVars, pwVars, ctVars, ntVars>>

Spec == Init /\ [][Next]_vars

(***************************************************************************)
(* Claims                                                                  *)
(***************************************************************************)

IsScenario ==
    /\ bd_pc # "idle"
    /\ end_date - start_date \in ScenarioSpans
    /\ df \in ScenarioLists(start_date)

\* C1: scope conservation.  Story points in the model are non-negative; every
\* snapshot of a reconstructed series has remaining_items + completed_items =
\* total_scope_items and remaining_points + completed_points =
\* total_scope_points.
C1_ScopeConservation ==
    (\A k \in 1..Len(df) : df[k].story_points >= 0)
    => \A i \in 1..Len(burndown_data) :
        LET snap == burndown_data[i] IN
        /\ snap.remaining_items + snap.completed_items = snap.total_scope_items
        /\ snap.remaining_points + snap.completed_points = snap.total_scope_points

C1_Witness ==
    /\ bd_pc = "done"
    /\ \A k \in 1..Len(df) : df[k].story_points >= 0
    /\ \E i \in 1..Len(burndown_data) :
          /\ burndown_data[i].completed_items > 0
          /\ burndown_data[i].remaining_items > 0
          /\ burndown_data[i].completed_points > 0
          /\ burndown_data[i].remaining_points > 0

C3_EndToEndScenario ==
    (bd_pc \in {"returned", "raised", "display_raised", "done"} /\ IsScenario)
    => /\ bd_pc = "done"
       /\ Len(burndown_data) = (end_date - start_date) + 1
       /\ \A i \in 1..Len(burndown_data) :
            LET snap == burndown_data[i]
                n == snap.date - start_date
                span == end_date - start_date
            IN  /\ snap.date = start_date + (i - 1)
                /\ snap.remaining_items >= 1
                /\ n = 0 => (snap.remaining_items = 3 /\ snap.completed_items = 0)
                /\ (n >= 2 /\ 2 * n < span)
                      => /\ snap.remaining_items = 2
                         /\ snap.completed_items = 1
                         /\ snap.completed_points = 5
                /\ 2 * n >= span
                      => /\ snap.remaining_items = 1
                         /\ snap.completed_items = 2
                         /\ snap.completed_points = 7

C3_Witness ==
    /\ bd_pc = "done"
    /\ IsScenario
    /\ end_date - start_date = 9
    /\ Len(burndown_data) = 10
    /\ burndown_data[3].completed_points = 5
    /\ burndown_data[5].completed_items = 1
    /\ burndown_data[6].completed_points = 7
    /\ burndown_data[10].remaining_items = 1

\* the completion date of a processed row: resolved, else closed
RowCompletion(w) == IF w.resolved_date # None THEN w.resolved_date ELSE w.closed_date

\* a is on or before b, for two datetimes that can be compared
OnOrBefore(a, b) == Comparable(a, b) /\ ToOrdinal(a) * 1440 - OffsetSeconds(a) \div 60
                                          <= ToOrdinal(b) * 1440 - OffsetSeconds(b) \div 60

StrictlyBefore(a, b) == Comparable(a, b) /\ ~OnOrBefore(b, a)

\* C4: cycle-time non-negativity.  For every combination of present and
\* absent created, activated, resolved and closed dates, cycle_time_days of a
\* processed row is None or an integer >= 0.
C4_CycleTimeNonNegative ==
    \A i \in 1..Len(work_items) :
        \/ work_items[i].cycle_time_days = None
        \/ work_items[i].cycle_time_days[1] >= 0

C4_Witness ==
    /\ pw_pc = "returned"
    /\ \E i \in 1..Len(work_items) :
          LET w == work_items[i] IN
          /\ w.activated_date # None
          /\ w.resolved_date # None
          /\ w.created_date = None
          /\ StrictlyBefore(w.resolved_date[1], w.activated_date[1])
          /\ w.cycle_time_days = None

\* C5: a row whose completion date (resolved, else closed) is strictly before
\* its activation date has no cycle time (cycle_time_days is None), whatever
\* its created date is.
C5_InvalidRangeLacksCycleTime ==
    \A i \in 1..Len(work_items) :
        LET w == work_items[i] IN
        (/\ w.activated_date # None
         /\ RowCompletion(w) # None
         /\ StrictlyBefore(RowCompletion(w)[1], w.activated_date[1]))
        => w.cycle_time_days = None

CategoryLabels == {"Bug", "UX", "QA", "Frontend", "Backend"}

\* C7: categorizer totality.  For every (title, type, tags) triple,
\* categorize_work_item returns exactly one label of the fixed set
\* {Bug, UX, QA, Frontend, Backend}, never None or an empty value.
C7_CategorizerTotal ==
    cat_pc = "returned" => category \in CategoryLabels

C7_Witness ==
    /\ cat_pc = "returned"
    /\ cat_args.work_type # TypeBug
    /\ cat_args.tags = << >>
    /\ cat_args.title = <<"R", "e", "f", "a", "c", "t", "o", "r", " ", "v", "2">>
    /\ category = "Frontend"

\* C8: categorizer type priority.  Whenever type is "Bug" the result is Bug,
\* for every title and every tags value, also when they hold UX, QA, Frontend
\* or Backend keywords or the tag "uxe".
C8_BugTypeWins ==
    (cat_pc = "returned" /\ cat_args.work_type = TypeBug) => category = "Bug"

C8_Witness ==
    /\ cat_pc = "returned"
    /\ cat_args.work_type = TypeBug
    /\ Contains(TagUxe, Lower(cat_args.tags))
    /\ AnyKeywordIn(qa_keywords, Lower(cat_args.title))
    /\ AnyKeywordIn(backend_keywords, Lower(cat_args.title))
    /\ category = "Bug"

\* C9: categorizer tag priority.  Whenever type is not "Bug" and the tags
\* contain "uxe" in any letter case the result is UX for every title, also one
\* with QA, Frontend or Backend keywords; ("Fix login bug", "Task",
\* "uxe, sprint15") gives UX.
C9_UxeTagWins ==
    /\ (/\ cat_pc = "returned"
        /\ cat_args.work_type # TypeBug
        /\ Contains(TagUxe, Lower(cat_args.tags)))
       => category = "UX"
    /\ (/\ cat_pc = "returned"
        /\ cat_args = [title |-> <<"F", "i", "x", " ", "l", "o", "g", "i", "n", " ", "b", "u", "g">>,
                       work_type |-> <<"T", "a", "s", "k">>,
                       tags |-> <<"u", "x", "e", ",", " ", "s", "p", "r", "i", "n", "t", "1", "5">>])
       => category = "UX"

C9_Witness ==
    /\ cat_pc = "returned"
    /\ cat_args.work_type # TypeBug
    /\ cat_args.tags = <<"U", "X", "E">>
    /\ AnyKeywordIn(qa_keywords, Lower(cat_args.title))
    /\ ~AnyKeywordIn(ux_keywords, Lower(cat_args.title))
    /\ category = "UX"

\* the first ten characters of s are a valid calendar date YYYY-MM-DD
\* (years 0001 to 9999 of the proleptic Gregorian calendar)
ValidDatePrefix(s) ==
    /\ Len(s) >= 10
    /\ AllDigits(SubSeq(s, 1, 4)) /\ s[5] = "-"
    /\ AllDigits(SubSeq(s, 6, 7)) /\ s[8] = "-"
    /\ AllDigits(SubSeq(s, 9, 10))
    /\ IntOf(SubSeq(s, 1, 4)) >= 1
    /\ IntOf(SubSeq(s, 6, 7)) \in 1..12
    /\ IntOf(SubSeq(s, 9, 10)) \in 1..DaysInMonth(IntOf(SubSeq(s, 1, 4)), IntOf(SubSeq(s, 6, 7)))

\* C10: date round-trip.  For every input whose first 10 characters are a
\* valid calendar date YYYY-MM-DD, parse_azure_date_to_datetime returns a value
\* whose year, month and day are those of the 10 characters and whose time of
\* day is midnight, whatever characters follow.
C10_DateRoundTrip ==
    (pd_pc = "returned" /\ ValidDatePrefix(date_str))
    => /\ parsed # None
       /\ parsed[1].year = IntOf(SubSeq(date_str, 1, 4))
       /\ parsed[1].month = IntOf(SubSeq(date_str, 6, 7))
       /\ parsed[1].day = IntOf(SubSeq(date_str, 9, 10))
       /\ parsed[1].hour = 0 /\ parsed[1].minute = 0 /\ parsed[1].second = 0

C10_Witness ==
    /\ pd_pc = "returned"
    /\ date_str = <<"2", "0", "2", "4", "-", "0", "2", "-", "2", "9", "g", "a", "r", "b", "a", "g", "e">>
    /\ parsed # None
    /\ parsed[1].month = 2
    /\ parsed[1].day = 29

\* every attempt of the parser on s fails: the fast path when it applies, the
\* ISO parse of the cleaned string otherwise, and each of the three fallback
\* formats on the first 19 characters
AllAttemptsFail(s, py) ==
    /\ FastPathApplies(s) => Strptime(SubSeq(s, 1, 10), FmtDate) = None
    /\ ~FastPathApplies(s) => FromIsoFormat(CleanDateStr(s), py) = None
    /\ \A k \in 1..Len(FallbackFormats) :
          Strptime(SubSeq(s, 1, Min(Len(s), 19)), FallbackFormats[k]) = None

\* C11: parse_azure_date_to_datetime never lets an exception escape: the call
\* always returns, and for an empty input and for every input on which the
\* fast path, the ISO parse and all three fallback formats fail the value
\* returned is None.
C11_ParseFailuresGiveNone ==
    /\ pd_pc \in {"idle", "called", "returned"}
    /\ (pd_pc = "returned" /\ (date_str = << >> \/ AllAttemptsFail(date_str, interp)))
       => parsed = None

C11_Witness ==
    /\ pd_pc = "returned"
    /\ date_str = <<"2", "0", "2", "5", "-", "1", "3", "-", "0", "1", "g", "a", "r", "b", "a", "g", "e">>
    /\ FastPathApplies(date_str)
    /\ AllAttemptsFail(date_str, interp)
    /\ parsed = None

\* C12: in every snapshot remaining_items and remaining_points are
\* non-negative, each being max(0, total - completed) of that day, also when
\* the total of the story points is below the completed points.
C12_RemainingClamped ==
    \A i \in 1..Len(burndown_data) :
        LET snap == burndown_data[i]
            items == snap.total_scope_items - snap.completed_items
            points == snap.total_scope_points - snap.completed_points
        IN  /\ snap.remaining_items >= 0
            /\ snap.remaining_points >= 0
            /\ snap.remaining_items = (IF items > 0 THEN items ELSE 0)
            /\ snap.remaining_points = (IF points > 0 THEN points ELSE 0)

C12_Witness ==
    /\ bd_pc = "done"
    /\ \E i \in 1..Len(burndown_data) :
          /\ burndown_data[i].total_scope_points - burndown_data[i].completed_points < 0
          /\ burndown_data[i].remaining_points = 0
          /\ burndown_data[i].remaining_items > 0

BurndownEnded == bd_pc \in {"returned", "raised", "display_raised", "done"}

\* the workflow states of the burndown scope
ScopeStates == {"Active", "Ready", "New", "Done", "Completed", "Closed", "Resolved"}

\* the series holds one snapshot per day of the window, all counts zero
AllZeroSeries ==
    /\ Len(burndown_data) = (end_date - start_date) + 1
    /\ \A i \in 1..Len(burndown_data) :
          /\ burndown_data[i].date = start_date + (i - 1)
          /\ burndown_data[i].remaining_items = 0
          /\ burndown_data[i].remaining_points = 0
          /\ burndown_data[i].completed_items = 0
          /\ burndown_data[i].completed_points = 0
          /\ burndown_data[i].total_scope_items = 0
          /\ burndown_data[i].total_scope_points = 0

CompletedStates == {"Done", "Completed", "Closed", "Resolved"}

\* row k of the table is counted as completed on day d by the stated rule:
\* its state is a completed state and either its completion date (resolved,
\* else closed) lies in sprintStart..d, or it has no completion date and
\* d - sprintStart >= (sprintEnd - sprintStart) / 2
RuleCounts(k, d) ==
    LET c == IF df[k].resolved_date # None THEN df[k].resolved_date ELSE df[k].closed_date
    IN  /\ df[k].state \in CompletedStates
        /\ IF c # None THEN start_date <= c[1] /\ c[1] <= d
           ELSE 2 * (d - start_date) >= end_date - start_date

RECURSIVE RuleCompletedItems(_, _)
RuleCompletedItems(n, d) ==
    IF n = 0 THEN 0
    ELSE (IF RuleCounts(n, d) THEN 1 ELSE 0) + RuleCompletedItems(n - 1, d)

RECURSIVE RuleCompletedPoints(_, _)
RuleCompletedPoints(n, d) ==
    IF n = 0 THEN 0
    ELSE (IF RuleCounts(n, d) THEN df[n].story_points ELSE 0) + RuleCompletedPoints(n - 1, d)

RECURSIVE ScopeCount(_)
ScopeCount(n) ==
    IF n = 0 THEN 0
    ELSE (IF df[n].state \in ScopeStates THEN 1 ELSE 0) + ScopeCount(n - 1)

RECURSIVE ScopePoints(_)
ScopePoints(n) ==
    IF n = 0 THEN 0
    ELSE (IF df[n].state \in ScopeStates THEN df[n].story_points ELSE 0) + ScopePoints(n - 1)

C17_ScopeFilterFixedTotals ==
    (bd_pc \in {"raised", "display_raised", "done"})
    => /\ total_items = ScopeCount(Len(df))
       /\ total_story_points = ScopePoints(Len(df))
       /\ \A i \in 1..Len(burndown_data) :
             LET snap == burndown_data[i]
                 items == ScopeCount(Len(df)) - RuleCompletedItems(Len(df), snap.date)
                 points == ScopePoints(Len(df)) - RuleCompletedPoints(Len(df), snap.date)
             IN  /\ snap.total_scope_items = ScopeCount(Len(df))
                 /\ snap.total_scope_points = ScopePoints(Len(df))
                 /\ snap.completed_items = RuleCompletedItems(Len(df), snap.date)
                 /\ snap.completed_points = RuleCompletedPoints(Len(df), snap.date)
                 /\ snap.remaining_items = (IF items > 0 THEN items ELSE 0)
                 /\ snap.remaining_points = (IF points > 0 THEN points ELSE 0)

C17_Witness ==
    /\ bd_pc = "done"
    /\ Len(burndown_data) >= 2
    /\ \E k \in 1..Len(df) : df[k].state \notin ScopeStates /\ df[k].story_points > 0
    /\ \E k \in 1..Len(df) : df[k].state \in CompletedStates /\ df[k].story_points > 0
    /\ burndown_data[1].total_scope_items = 1
    /\ burndown_data[Len(burndown_data)].completed_points > 0

\* C18: cycle-time primary rule with resolved priority.  The completion date
\* is the resolved date when present and the closed date only when the
\* resolved date is absent; with activation and completion present and
\* completion >= activation the cycle time is (completion - activation) in
\* whole days; the closed date of a row that has a resolved date never
\* influences its cycle time.
C18_ResolvedPriority ==
    \A i \in 1..Len(work_items) :
        LET w == work_items[i] IN
        /\ (/\ w.activated_date # None
            /\ RowCompletion(w) # None
            /\ OnOrBefore(w.activated_date[1], RowCompletion(w)[1]))
           => w.cycle_time_days
                 = Some(ToOrdinal(RowCompletion(w)[1]) - ToOrdinal(w.activated_date[1]))
        /\ w.resolved_date # None
           => w.cycle_time_days
                 = CycleTimeDays(w.created_date, w.activated_date, w.resolved_date, None)

C18_Witness ==
    /\ pw_pc = "returned"
    /\ \E i \in 1..Len(work_items) :
          /\ raw_data[i].fields.ActivatedDate = <<"2", "0", "2", "5", "-", "0", "1", "-", "0", "1">>
          /\ raw_data[i].fields.ResolvedDate = <<"2", "0", "2", "5", "-", "0", "1", "-", "0", "5", "T", "0", "0", ":", "0", "0", ":", "0", "0", "Z">>
          /\ raw_data[i].fields.ClosedDate = <<"2", "0", "2", "5", "-", "0", "1", "-", "1", "0", "T", "0", "8", ":", "3", "0", ":", "0", "0", ".", "1", "2", "3", "Z">>
          /\ work_items[i].closed_date # None
          /\ work_items[i].cycle_time_days = Some(4)

\* the label of the first of the lists UX, QA, Frontend, Backend that has a
\* keyword contained in the lower-cased title t; "" when none has
FirstMatchingList(t) ==
    LET hit == <<AnyKeywordIn(ux_keywords, t), AnyKeywordIn(qa_keywords, t),
                 AnyKeywordIn(frontend_keywords, t), AnyKeywordIn(backend_keywords, t)>>
        label == <<"UX", "QA", "Frontend", "Backend">>
    IN  IF \E k \in 1..4 : hit[k]
        THEN label[CHOOSE k \in 1..4 : hit[k] /\ \A j \in 1..(k - 1) : ~hit[j]]
        ELSE ""

NoBugNoUxe ==
    /\ cat_pc = "returned"
    /\ cat_args.work_type # TypeBug
    /\ ~Contains(TagUxe, Lower(cat_args.tags))

\* C19: categorizer decision order.  For an item that is not of type "Bug" and
\* has no "uxe" tag the title keyword lists are consulted in the order UX, QA,
\* Frontend, Backend and the first list with a keyword contained in the title
\* decides: a QA and a Backend keyword give QA, a Frontend and a Backend
\* keyword give Frontend.
C19_DecisionOrder ==
    (NoBugNoUxe /\ FirstMatchingList(Lower(cat_args.title)) # "")
    => category = FirstMatchingList(Lower(cat_args.title))

C19_Witness ==
    /\ NoBugNoUxe
    /\ cat_args.title = <<"A", "d", "d", " ", "u", "n", "i", "t", " ", "t", "e", "s", "t", " ", "f", "o", "r", " ", "A", "P", "I">>
    /\ AnyKeywordIn(qa_keywords, Lower(cat_args.title))
    /\ AnyKeywordIn(backend_keywords, Lower(cat_args.title))
    /\ ~AnyKeywordIn(ux_keywords, Lower(cat_args.title))
    /\ category = "QA"

\* C20: categorizer default.  When type is not "Bug", the tags do not contain
\* "uxe" and the title contains no keyword of the UX, QA, Frontend and Backend
\* lists, categorize_work_item returns Frontend.
C20_DefaultFrontend ==
    (NoBugNoUxe /\ FirstMatchingList(Lower(cat_args.title)) = "")
    => category = "Frontend"

C20_Witness ==
    /\ NoBugNoUxe
    /\ cat_args.title = <<"R", "e", "f", "a", "c", "t", "o", "r", " ", "v", "2">>
    /\ cat_args.work_type = <<"b", "u", "g">>
    /\ FirstMatchingList(Lower(cat_args.title)) = ""
    /\ category = "Frontend"

\* C21: every string comparison of categorize_work_item is case-insensitive:
\* two (title, type, tags) triples that differ only in letter case get the
\* same category.
C21_CaseInsensitive ==
    cat_pc = "returned"
    => \A t \in {cat_args.title, Lower(cat_args.title)} :
       \A w \in WorkTypes \cup {Lower(cat_args.work_type)} :
       \A g \in TagValues \cup {Lower(cat_args.tags)} :
          (Lower(w) = Lower(cat_args.work_type) /\ Lower(g) = Lower(cat_args.tags))
          => CategorizeWorkItem(t, w, g) = category

NonNegativePoints == \A k \in 1..Len(df) : df[k].story_points >= 0

\* C24: monotonicity of the burndown series.  For every item list with
\* non-negative story points completed_items and completed_points never
\* decrease from one day's snapshot to the next, and remaining_items and
\* remaining_points never increase.
C24_Monotone ==
    NonNegativePoints
    => \A i \in 1..(Len(burndown_data) - 1) :
          /\ burndown_data[i + 1].completed_items >= burndown_data[i].completed_items
          /\ burndown_data[i + 1].completed_points >= burndown_data[i].completed_points
          /\ burndown_data[i + 1].remaining_items <= burndown_data[i].remaining_items
          /\ burndown_data[i + 1].remaining_points <= burndown_data[i].remaining_points

C24_Witness ==
    /\ bd_pc = "done"
    /\ NonNegativePoints
    /\ Len(burndown_data) >= 3
    /\ burndown_data[2].completed_items > burndown_data[1].completed_items
    /\ burndown_data[3].completed_points > burndown_data[2].completed_points
    /\ burndown_data[3].remaining_items < burndown_data[1].remaining_items

\* row k is in a completed state and its completion date (resolved, else
\* closed) is present and lies before sprintStart or after sprintEnd
OutsideWindow(k) ==
    LET c == IF df[k].resolved_date # None THEN df[k].resolved_date ELSE df[k].closed_date
    IN  /\ df[k].state \in CompletedStates
        /\ c # None
        /\ (c[1] < start_date \/ c[1] > end_date)

RECURSIVE OutsideCount(_)
OutsideCount(n) ==
    IF n = 0 THEN 0 ELSE (IF OutsideWindow(n) THEN 1 ELSE 0) + OutsideCount(n - 1)

RECURSIVE OutsidePoints(_)
OutsidePoints(n) ==
    IF n = 0 THEN 0
    ELSE (IF OutsideWindow(n) THEN df[n].story_points ELSE 0) + OutsidePoints(n - 1)

RECURSIVE CompletedStateCount(_)
CompletedStateCount(n) ==
    IF n = 0 THEN 0
    ELSE (IF df[n].state \in CompletedStates THEN 1 ELSE 0) + CompletedStateCount(n - 1)

RECURSIVE CompletedStatePoints(_)
CompletedStatePoints(n) ==
    IF n = 0 THEN 0
    ELSE (IF df[n].state \in CompletedStates THEN df[n].story_points ELSE 0)
         + CompletedStatePoints(n - 1)

\* C25: an in-scope item in a completed state whose completion date is present
\* but before sprintStart or after sprintEnd is not counted as completed on
\* any day of the series; it stays in remaining_items and (story points being
\* non-negative) in remaining_points up to and including the last snapshot.
C25_OutsideWindowNeverCompleted ==
    \A i \in 1..Len(burndown_data) :
        LET snap == burndown_data[i] IN
        /\ snap.completed_items <= CompletedStateCount(Len(df)) - OutsideCount(Len(df))
        /\ snap.remaining_items >= OutsideCount(Len(df))
        /\ NonNegativePoints
           => /\ snap.completed_points
                    <= CompletedStatePoints(Len(df)) - OutsidePoints(Len(df))
              /\ snap.remaining_points >= OutsidePoints(Len(df))

C25_Witness ==
    /\ bd_pc = "done"
    /\ NonNegativePoints
    /\ \E k \in 1..Len(df) :
          /\ OutsideWindow(k) /\ df[k].story_points > 0
          /\ df[k].resolved_date # None /\ df[k].resolved_date[1] < start_date
    /\ \E k \in 1..Len(df) :
          /\ OutsideWindow(k) /\ df[k].story_points > 0
          /\ df[k].resolved_date = None /\ df[k].closed_date[1] > end_date
    /\ Len(burndown_data) >= 2
    /\ burndown_data[Len(burndown_data)].completed_items = 0
    /\ burndown_data[Len(burndown_data)].remaining_items = 2
    /\ burndown_data[Len(burndown_data)].remaining_points = 6

\* the number of rows under analysis that have cycle-time data, and their sum
TimesCount == Cardinality({i \in 1..Len(ct_times) : ct_times[i] # None})

RECURSIVE TimesSum(_)
TimesSum(n) ==
    IF n = 0 THEN 0 ELSE (IF ct_times[n] # None THEN ct_times[n][1] ELSE 0) + TimesSum(n - 1)

RECURSIVE TimesSquares(_)
TimesSquares(n) ==
    IF n = 0 THEN 0
    ELSE (IF ct_times[n] # None
          THEN (TimesCount * ct_times[n][1] - TimesSum(Len(ct_times)))
               * (TimesCount * ct_times[n][1] - TimesSum(Len(ct_times)))
          ELSE 0) + TimesSquares(n - 1)

\* x > mean + stddev (sample standard deviation) of the rows with data
AboveMeanPlusStd(x) ==
    LET d == TimesCount * x - TimesSum(Len(ct_times))
    IN  d > 0 /\ d * d * (TimesCount - 1) > TimesSquares(Len(ct_times))

\* x > mean + 5
AboveMeanPlusFive(x) == TimesCount * x > TimesSum(Len(ct_times)) + 5 * TimesCount

\* C22: long-cycle threshold.  Wherever outlier detection is computed the
\* threshold is mean + stddev of cycle_time_days when at least 2 items have
\* cycle-time data and mean + 5 days when fewer than 2 have it, and an item is
\* reported as long-cycle exactly when its cycle time is strictly greater than
\* the threshold.
C22_LongCycleThreshold ==
    (ct_pc = "returned" /\ ct_rule # "not_computed")
    => IF TimesCount >= 2
       THEN /\ ct_rule = "mean_plus_std"
            /\ ct_long = {i \in 1..Len(ct_times) :
                             ct_times[i] # None /\ AboveMeanPlusStd(ct_times[i][1])}
       ELSE /\ ct_rule = "mean_plus_days"
            /\ ct_long = {i \in 1..Len(ct_times) :
                             ct_times[i] # None /\ AboveMeanPlusFive(ct_times[i][1])}

\* C23: in the slide-deck report a completion date (resolved, else closed)
\* before the activation date gives cycle_time_days None, never a negative
\* number, so no negative value reaches the mean and the standard deviation of
\* analyze_cycle_time.
C23_ReportNoNegativeCycleTime ==
    (ct_site = "report" /\ ct_pc \in {"ready", "returned"})
    => \A i \in 1..Len(ct_times) : ct_times[i] = None \/ ct_times[i][1] >= 0

TotalsDiffer(m1, m2) ==
    \/ m1.total_work_items # m2.total_work_items
    \/ m1.total_story_points # m2.total_story_points

\* C26: a call of check_for_changes reports changes_detected exactly when the
\* baseline file had an entry for the call's key before the call and that
\* entry's total_work_items or total_story_points differs from the current
\* metrics.  So the first check of a key, a repeated check with the same
\* totals, and a check that differs only in the completed counts report none.
C26_ChangeIffTotalsDiffer ==
    [][nt_check' # None =>
        LET k == nt_check'[1].sprint_key
            current == nt_check'[1].current_metrics
        IN  nt_check'[1].changes_detected
                <=> (baseline_data[k] # None /\ TotalsDiffer(baseline_data[k][1], current))]_vars

\* A check whose baseline differs from the current data in the completed
\* counts only, and which reports no change.
C26_Witness ==
    /\ nt_pc = "returned"
    /\ nt_check # None
    /\ nt_check[1].baseline_metrics # None
    /\ nt_check[1].baseline_metrics[1].completed_work_items
           # nt_check[1].current_metrics.completed_work_items
    /\ ~nt_check[1].changes_detected

\* C27: every call leaves the current metrics as the stored baseline of its
\* key, whatever happens to the email afterwards, and a call that follows a
\* call for the same key with the same totals reports no change.
C27_BaselineAlwaysOverwritten ==
    [][nt_check' # None =>
        /\ baseline_data'[nt_check'[1].sprint_key] = Some(nt_check'[1].current_metrics)
        /\ (/\ nt_check # None
            /\ nt_check[1].sprint_key = nt_check'[1].sprint_key
            /\ ~TotalsDiffer(nt_check[1].current_metrics, nt_check'[1].current_metrics))
           => ~nt_check'[1].changes_detected]_vars

\* A detected change over an existing baseline whose email could not be
\* sent, with the baseline replaced all the same.
C27_Witness ==
    /\ nt_pc = "returned"
    /\ nt_check[1].changes_detected
    /\ nt_result[1].email_sent = FALSE
    /\ nt_result[1].email_status = "Failed to send email"
    /\ baseline_data[nt_check[1].sprint_key] = Some(nt_check[1].current_metrics)
    /\ nt_check[1].baseline_metrics # Some(nt_check[1].current_metrics)

\* C28: a check changes the stored baseline of its own key only, and a check
\* of a key that has no stored baseline reports no change, whatever the other
\* keys' baselines hold.
C28_PerKeyBaselines ==
    [][nt_check' # None =>
        /\ \A k \in NotifierKeys \ {nt_check'[1].sprint_key} :
               baseline_data'[k] = baseline_data[k]
        /\ baseline_data[nt_check'[1].sprint_key] = None
               => ~nt_check'[1].changes_detected]_vars

\* The first check of a key while another key has a baseline with other
\* totals, which is still there after the check.
C28_Witness ==
    /\ nt_check # None
    /\ nt_check[1].baseline_metrics = None
    /\ ~nt_check[1].changes_detected
    /\ \E k \in NotifierKeys \ {nt_check[1].sprint_key} :
           /\ baseline_data[k] # None
           /\ TotalsDiffer(baseline_data[k][1], nt_check[1].current_metrics)

\* C29: monitor_and_notify returns a result record with email_sent and
\* email_status for every input and never raises.
C29_MonitorNeverRaises ==
    nt_pc \in {"returned", "raised"}
        => /\ nt_pc = "returned"
           /\ nt_result # None
           /\ nt_result[1].email_sent \in BOOLEAN

\* The time of the last "File modified" log entry of a path, None if it has none.
LastModification(log, p) ==
    IF log[p] = {} THEN None
    ELSE Some(CHOOSE t \in log[p] : \A u \in log[p] : u <= t)

\* C30: a modification event for a monitored file less than 2 seconds after
\* the last processed modification of the same path is not processed and
\* leaves last_processed as it is; any two processed modifications of one
\* path are at least 2 seconds apart; created and deleted events for a
\* monitored file are always processed and leave last_processed as it is.
C30_ModificationCooldown ==
    [][fm_event' # None =>
        LET event == fm_event'[1]
            p == event.src_path
            last == LastModification(modified_log, p)
        IN  /\ (/\ event.event_type = "modified"
                /\ Monitored(p, event.is_directory)
                /\ last # None
                /\ fm_clock' - last[1] < 2)
               => /\ ~event.processed
                  /\ modified_log' = modified_log
                  /\ last_processed' = last_processed
            /\ \A q \in FilePaths : \A t1, t2 \in modified_log'[q] :
                   t1 < t2 => t2 - t1 >= 2
            /\ event.event_type \in {"created", "deleted"}
               => /\ event.processed = Monitored(p, event.is_directory)
                  /\ last_processed' = last_processed]_vars

\* A modification of a monitored file one second after a processed one, dropped.
C30_Witness ==
    /\ fm_event # None
    /\ fm_event[1].event_type = "modified"
    /\ Monitored(fm_event[1].src_path, fm_event[1].is_directory)
    /\ ~fm_event[1].processed
    /\ LastModification(modified_log, fm_event[1].src_path) = Some(fm_clock - 1)
    /\ last_processed[fm_event[1].src_path] = Some(fm_clock - 1)

====
